---------------------------- MODULE Spec2Model ----------------------------
(***************************************************************************)
(* bevy_llm: the bridge between asynchronous chat turns and the Bevy       *)
(* Update schedule (src/src/lib.rs).                                       *)
(*                                                                         *)
(* State: the ECS components ChatSession / ChatRequest of each entity, the *)
(* deferred command buffer of spawn_chat_requests, the bounded flume       *)
(* channel of StreamInbox, the spawned async tasks (one per dispatched     *)
(* turn, each with its position in the async block and its locals), and    *)
(* the Bevy event queues, kept as one log in write order.                  *)
(***************************************************************************)
EXTENDS Naturals, Sequences, FiniteSets, TLC

VARIABLES
    wasm,          \* cfg(target_arch = "wasm32"): tasks share the main thread
    capacity,      \* the bound given to flume::bounded in StreamInbox::default
    maxPerFrame,   \* MAX_PER_FRAME of drain_stream_inbox
    providers,     \* the Providers resource
    session,       \* entity -> Option<ChatSession>
    request,       \* entity -> Option<ChatRequest>
    pendingRemove, \* entities with a queued remove::<ChatRequest>() command
    ran,           \* systems of the Update schedule that already ran this tick
    tasks,         \* the spawned async blocks, in spawn order (index = turn)
    inbox,         \* messages queued in the flume channel, oldest first
    events,        \* notifications written to the event queues, in write order
    bound,         \* what the host and the providers do in the behaviours
                   \* of one specification: the number of turns and of Ok
                   \* items of a stream, and the values the host sends and
                   \* the providers answer
    unit           \* a call of one of the crate's pure functions on its own,
                   \* outside the schedule: the function, its arguments and
                   \* the values returned so far

vars == <<wasm, capacity, maxPerFrame, providers, session, request, pendingRemove, ran,
          tasks, inbox, events, bound, unit>>

---------------------------------------------------------------------------
(* Bounds of the model.                                                    *)

\* entities carrying a ChatSession
NumEntities == 2
\* turns the host starts in one behaviour, and the Ok items one provider
\* stream yields before it ends: of Spec, where turns run concurrently
MaxTurns == 2
MaxChunks == 1
\* Ok items of a stream and choices of one item in TurnSpec, where one turn runs
TurnChunks == 2
TurnChoices == 1
\* channel bound and per-frame cap of the scaled specification Spec
SmallCapacity == 3
SmallPerFrame == 2
\* messages already queued when a behaviour of BurstSpec starts
BurstSize == 600
\* messages of the longest snapshot merge_memory_with_final is called on in
\* UnitSpec
MaxSnapshot == 2
HostTurns == 2
ScenarioChunks == 3
\* messages in the channel of FullSpec at the start: one less than it holds
NearFull == 2047

(* Program constants.                                                      *)
INBOX_CAPACITY == 2048
MAX_PER_FRAME == 512
MIN_CHARS == 64

Entities == 1..NumEntities

\* Option<T>: None is the empty sequence, Some(x) the one-element sequence.
None == <<>>
Some(x) == <<x>>
IsSome(o) == o # <<>>
Unwrap(o) == o[1]

Min(a, b) == IF a <= b THEN a ELSE b

SeqToSet(s) == {s[i] : i \in 1..Len(s)}

\* the strings texts[lo..hi] joined in order (String::push_str, one after the
\* other), computed by halves
RECURSIVE ConcatRange(_, _, _)
ConcatRange(texts, lo, hi) ==
    IF lo > hi THEN ""
    ELSE IF lo = hi THEN texts[lo]
    ELSE LET mid == (lo + hi) \div 2
         IN  ConcatRange(texts, lo, mid) \o ConcatRange(texts, mid + 1, hi)

Concat(texts) == ConcatRange(texts, 1, Len(texts))

Reverse(s) == [i \in 1..Len(s) |-> s[Len(s) + 1 - i]]

\* all orders in which the elements of a finite set can be visited
RECURSIVE Orders(_)
Orders(S) ==
    IF S = {} THEN {<<>>}
    ELSE UNION {{<<x>> \o o : o \in Orders(S \ {x})} : x \in S}

---------------------------------------------------------------------------
(* llm::chat::ChatMessage, as far as this crate reads it: role and content *)

ChatMessage(role, content) == [role |-> role, content |-> content]

\* ChatMessage::user().content(text).build()
UserMessage(text) == ChatMessage("User", text)

\* ChatMessage::assistant().content(text).build()
AssistantMessage(text) == ChatMessage("Assistant", text)

\* a 64-byte text: one chunk of it alone meets MIN_CHARS
LongText == "0123456789012345678901234567890123456789012345678901234567890123"

(* Providers: `default` and the HashMap `per_key`, a function on its keys *)
ProvidersNew(default) == [default |-> default, per_key |-> <<>>]

\* Providers::with: per_key.insert(key, provider)
ProvidersWith(reg, key, provider) ==
    [reg EXCEPT !.per_key =
        [k \in (DOMAIN reg.per_key) \cup {key} |->
            IF k = key THEN provider ELSE reg.per_key[k]]]

\* a lookup that does not read the key
ProvidersGetIgnoresKey(reg, key) == reg.default

\* Providers::get
ProvidersGet(reg, key) ==
    IF IsSome(key)
      THEN IF Unwrap(key) \in DOMAIN reg.per_key
             THEN reg.per_key[Unwrap(key)]
             ELSE reg.default
      ELSE reg.default

---------------------------------------------------------------------------
(* StreamMsg.  `turn` is not a field of the source's enum: it records the  *)
(* task that built the message and no operation of the program reads it.   *)

Begin(e, n) == [type |-> "Begin", entity |-> e, turn |-> n]
Delta(e, n, text) == [type |-> "Delta", entity |-> e, turn |-> n, text |-> text]
Tool(e, n, calls) == [type |-> "Tool", entity |-> e, turn |-> n, calls |-> calls]
Done(e, n, final_text, memory) ==
    [type |-> "Done", entity |-> e, turn |-> n,
     final_text |-> final_text, memory |-> memory]
Err(e, n, error) == [type |-> "Err", entity |-> e, turn |-> n, error |-> error]

IsTerminal(m) == m.type \in {"Done", "Err"}

\* mem.unwrap_or_default() in place of the early return of None
merge_memory_unwrap_or_default(mem, final_text) ==
    LET m == IF IsSome(mem) THEN Unwrap(mem) ELSE <<>>
        t == IF IsSome(final_text) THEN Unwrap(final_text) ELSE ""
        need_append == IF m = <<>> THEN TRUE
                       ELSE ~(m[Len(m)].role = "Assistant" /\ m[Len(m)].content = t)
    IN  IF IsSome(final_text) /\ t # "" /\ need_append
          THEN Some(Append(m, AssistantMessage(t)))
          ELSE Some(m)

\* need_append that compares the content of the last entry, not its role
merge_memory_ignores_role(mem, final_text) ==
    IF ~(IsSome(mem) /\ Unwrap(mem) # <<>>)
      THEN None
      ELSE LET m == Unwrap(mem)
               t == IF IsSome(final_text) THEN Unwrap(final_text) ELSE ""
               need_append == m[Len(m)].content # t
           IN  IF IsSome(final_text) /\ t # "" /\ need_append
                 THEN Some(Append(m, AssistantMessage(t)))
                 ELSE Some(m)

\* need_append fixed to true
merge_memory_always_appends(mem, final_text) ==
    IF ~(IsSome(mem) /\ Unwrap(mem) # <<>>)
      THEN None
      ELSE LET m == Unwrap(mem)
               t == IF IsSome(final_text) THEN Unwrap(final_text) ELSE ""
           IN  IF IsSome(final_text) /\ t # ""
                 THEN Some(Append(m, AssistantMessage(t)))
                 ELSE Some(m)

\* merge_memory_with_final(mem, final_text)
merge_memory_with_final(mem, final_text) ==
    IF ~(IsSome(mem) /\ Unwrap(mem) # <<>>)
      THEN None
      ELSE LET m == Unwrap(mem)
               t == IF IsSome(final_text) THEN Unwrap(final_text) ELSE ""
               last == m[Len(m)]
               need_append == ~(last.role = "Assistant" /\ last.content = t)
           IN  IF IsSome(final_text) /\ t # "" /\ need_append
                 THEN Some(Append(m, AssistantMessage(t)))
                 ELSE Some(m)

\* provider.memory_contents().await.and_then(|m| (!m.is_empty()).then_some(m))
NonEmptyMemory(mem) == IF IsSome(mem) /\ Unwrap(mem) # <<>> THEN mem ELSE None

\* a final text that is present also when the text is empty
FinalTextAlwaysSome(text) == Some(text)

\* if text.is_empty() { None } else { Some(text.clone()) }
FinalText(text) == IF text = "" THEN None ELSE Some(text)

---------------------------------------------------------------------------
(* The async block spawned by spawn_chat_requests for one turn.            *)
(*   pc        the await the block is suspended at, or "returned"          *)
(*   out       the push_inbox calls of the code that runs up to the next   *)
(*             await, not yet made, in program order                       *)
(*   acquired  chat_stream_struct returned Ok (the block is in Ok(mut s))  *)
(*   pushed, calls, callee, rejected, nchunks, arrivals, waited, snapshot  *)
(*             record the messages of the block that entered the channel,  *)
(*             the provider methods it has called and the providers it has *)
(*             called them on, the error of its streaming                  *)
(*             call, the text and tool calls its stream has delivered,     *)
(*             whether the push of its terminal message was waiting for    *)
(*             room when Drain ran, and what memory_contents() returned to *)
(*             it; the program reads none of them                          *)

NewTask(e, provider, messages, stream) ==
    [entity |-> e, provider |-> provider, messages |-> messages,
     stream |-> stream,
     pc |-> IF stream THEN "chat_stream_struct" ELSE "chat",
     acquired |-> FALSE, text |-> "", buf |-> "", last_text |-> "",
     out |-> <<>>, pushed |-> <<>>,
     calls |-> IF stream THEN <<"chat_stream_struct">> ELSE <<"chat">>,
     callee |-> {provider},
     rejected |-> None, nchunks |-> 0, arrivals |-> <<>>, waited |-> FALSE,
     snapshot |-> None]

Turns == 1..Len(tasks)

\* the block has run to its end
Returned(n) == tasks[n].pc = "returned" /\ tasks[n].out = <<>>

\* a push that gives up when the channel is full (try_send)
push_inbox_try(q, msg) ==
    [returns |-> TRUE, queue |-> IF Len(q) < capacity THEN Append(q, msg) ELSE q]

\* a channel that hands out the newest message first
push_inbox_front(q, msg) ==
    IF Len(q) < capacity
      THEN [returns |-> TRUE, queue |-> <<msg>> \o q]
      ELSE [returns |-> FALSE, queue |-> q]

\* a push onto a channel without a bound (flume::unbounded)
push_inbox_unbounded(q, msg) == [returns |-> TRUE, queue |-> Append(q, msg)]

(* push_inbox: tx.send(msg) on the bounded channel.  flume's send waits    *)
(* while the channel holds `capacity` messages; `returns` tells whether    *)
(* the call can return in the given state and `queue` is the channel then. *)
push_inbox(q, msg) ==
    IF Len(q) < capacity
      THEN [returns |-> TRUE, queue |-> Append(q, msg)]
      ELSE [returns |-> FALSE, queue |-> q]

\* a task is inside tx.send, waiting for room
Sending(n) == tasks[n].out # <<>>
Waiting(n) == Sending(n) /\ ~push_inbox(inbox, Head(tasks[n].out)).returns

(* Executors.  Native: the block runs on the tokio runtime, any time.      *)
(* wasm: the block runs on the main thread between two runs of the         *)
(* schedule, and a block that does not await is not interleaved.           *)
MainThreadBlocked == wasm /\ \E n \in Turns : Waiting(n)

TaskMayRun(n) ==
    \/ ~wasm
    \/ /\ ran = {}
       /\ \A o \in Turns \ {n} : ~Sending(o)

MainMayRun ==
    \/ ~wasm
    \/ \A n \in Turns : ~Sending(n)

---------------------------------------------------------------------------
(* What the provider may answer.                                           *)

\* the LLMError of a failed call, as err.to_string()
StreamCallErrors == {"unsupported", "transport"}
ChatErrors == {"transport"}
NextErrors == {"transport"}

\* resp.text().unwrap_or_default()
ChatTexts == bound.chatTexts

\* provider.memory_contents()
Memories == bound.memories

\* StreamDelta.content and StreamDelta.tool_calls
Contents == {None, Some("")} \cup {Some(t) : t \in bound.contents}
ToolCallLists == {None, Some(<<>>)} \cup {Some(c) : c \in bound.calls}

(* One StreamChoice, with the outcome of the clock test made while it is   *)
(* processed: late <=> now.duration_since(last_flush) >= MAX_LATENCY.      *)
StreamChoice(content, tool_calls, late) ==
    [content |-> content, tool_calls |-> tool_calls, late |-> late]

HasText(c) == IsSome(c.content) /\ Unwrap(c.content) # ""
HasCalls(c) == IsSome(c.tool_calls) /\ Unwrap(c.tool_calls) # <<>>

Choices ==
    {c \in [content : Contents, tool_calls : ToolCallLists, late : bound.late] :
        c.late => HasText(c)}

\* the sequences over S of at most k elements
RECURSIVE SeqsUpTo(_, _)
SeqsUpTo(S, k) ==
    IF k = 0 THEN {<<>>}
    ELSE LET shorter == SeqsUpTo(S, k - 1)
         IN  shorter \cup {Append(q, x) : q \in shorter, x \in S}

\* StreamResponse.choices
Responses == SeqsUpTo(Choices, bound.choices)

\* a loop body that pushes every text as it comes, without coalescing
ProcessChoiceFlushesAlways(c, st, e, n) ==
    LET appended == IF HasText(c)
                      THEN [st EXCEPT !.last_text = @ \o Unwrap(c.content),
                                      !.out = Append(@, Delta(e, n, Unwrap(c.content)))]
                      ELSE st
    IN  IF HasCalls(c)
          THEN [appended EXCEPT !.out = Append(@, Tool(e, n, Unwrap(c.tool_calls)))]
          ELSE appended

\* a loop body that flushes only when the buffer is longer than MIN_CHARS
ProcessChoiceStrictlyMore(c, st, e, n) ==
    LET appended == IF HasText(c)
                      THEN [st EXCEPT !.last_text = @ \o Unwrap(c.content),
                                      !.buf = @ \o Unwrap(c.content)]
                      ELSE st
        flush == HasText(c) /\ (Len(appended.buf) > MIN_CHARS \/ c.late)
        flushed == IF flush
                     THEN [appended EXCEPT !.out = Append(@, Delta(e, n, appended.buf)),
                                           !.buf = ""]
                     ELSE appended
    IN  IF HasCalls(c)
          THEN [flushed EXCEPT !.out = Append(@, Tool(e, n, Unwrap(c.tool_calls)))]
          ELSE flushed

(* The body of `for StreamChoice {..} in choices` for one choice, on the   *)
(* locals st = [buf, last_text, out] of the block of turn n on entity e.   *)
ProcessChoice(c, st, e, n) ==
    LET appended == IF HasText(c)
                      THEN [st EXCEPT !.last_text = @ \o Unwrap(c.content),
                                      !.buf = @ \o Unwrap(c.content)]
                      ELSE st
        flush == HasText(c) /\ (Len(appended.buf) >= MIN_CHARS \/ c.late)
        flushed == IF flush
                     THEN [appended EXCEPT !.out = Append(@, Delta(e, n, appended.buf)),
                                           !.buf = ""]
                     ELSE appended
    IN  IF HasCalls(c)
          THEN [flushed EXCEPT !.out = Append(@, Tool(e, n, Unwrap(c.tool_calls)))]
          ELSE flushed

\* the text and the tool calls a response delivers, in the order of its choices
RECURSIVE Arrivals(_)
Arrivals(choices) ==
    IF choices = <<>> THEN <<>>
    ELSE LET c == Head(choices)
         IN  (IF HasText(c) THEN <<[text |-> Unwrap(c.content), late |-> c.late]>> ELSE <<>>)
             \o (IF HasCalls(c) THEN <<[calls |-> Unwrap(c.tool_calls)]>> ELSE <<>>)
             \o Arrivals(Tail(choices))

RECURSIVE ProcessChoices(_, _, _, _)
ProcessChoices(choices, st, e, n) ==
    IF choices = <<>> THEN st
    ELSE ProcessChoices(Tail(choices), ProcessChoice(Head(choices), st, e, n), e, n)

\* a block that forgets to flush what is left in buf
NoFlushTail(buf, e, n) == <<>>

\* if !buf.is_empty() { push_inbox(Delta { text: take(&mut buf) }) }
FlushTail(buf, e, n) == IF buf # "" THEN <<Delta(e, n, buf)>> ELSE <<>>

\* an arm Err(err) that drops what is left in buf
ErrorArmDropsBuffer(buf, e, n, err) == <<Err(e, n, err)>>

\* the pushes of the arm Err(err) of `match item`, which then returns
ErrorArmPushesSwapped(buf, e, n, err) == <<Err(e, n, err)>> \o FlushTail(buf, e, n)

ErrorArmPushes(buf, e, n, err) == FlushTail(buf, e, n) \o <<Err(e, n, err)>>

\* the pushes of a successful one-shot call with the Begin left out
OneShotPushesNoBegin(e, n, text, mem) ==
    (IF text # "" THEN <<Delta(e, n, text)>> ELSE <<>>)
    \o <<Done(e, n, FinalText(text), merge_memory_with_final(mem, FinalText(text)))>>

\* the pushes of a successful one-shot call, after memory_contents returned
OneShotPushes(e, n, text, mem) ==
    <<Begin(e, n)>>
    \o (IF text # "" THEN <<Delta(e, n, text)>> ELSE <<>>)
    \o <<Done(e, n, FinalText(text), merge_memory_with_final(mem, FinalText(text)))>>

---------------------------------------------------------------------------
(* Steps of a task.                                                        *)

Others == <<wasm, capacity, maxPerFrame, providers, session, request,
            pendingRemove, ran, events, bound, unit>>

\* a streaming call that falls back only on "unsupported" and fails the turn
\* on any other error
StreamCallReturnsStrict(n, res) ==
    /\ TaskMayRun(n)
    /\ tasks[n].pc = "chat_stream_struct"
    /\ tasks' = [tasks EXCEPT ![n] =
         IF res = "Ok"
           THEN [@ EXCEPT !.acquired = TRUE, !.pc = "next",
                          !.out = <<Begin(tasks[n].entity, n)>>]
           ELSE IF res = "unsupported"
             THEN [@ EXCEPT !.pc = "chat", !.calls = Append(@, "chat"),
                            !.rejected = Some(res)]
             ELSE [@ EXCEPT !.pc = "returned", !.rejected = Some(res),
                            !.out = <<Err(tasks[n].entity, n, res)>>]]
    /\ UNCHANGED <<inbox, Others>>

\* a fallback that looks the provider up again, in the registry and under
\* the session key of the moment
StreamCallReturnsLooksUpAgain(n, res) ==
    /\ TaskMayRun(n)
    /\ tasks[n].pc = "chat_stream_struct"
    /\ tasks' = [tasks EXCEPT ![n] =
         IF res = "Ok"
           THEN [@ EXCEPT !.acquired = TRUE, !.pc = "next",
                          !.out = <<Begin(tasks[n].entity, n)>>]
           ELSE LET now == IF IsSome(session[tasks[n].entity])
                             THEN ProvidersGet(providers,
                                               Unwrap(session[tasks[n].entity]).key)
                             ELSE providers.default
                IN  [@ EXCEPT !.pc = "chat", !.calls = Append(@, "chat"),
                              !.provider = now, !.callee = @ \cup {now},
                              !.rejected = Some(res)]]
    /\ UNCHANGED <<inbox, Others>>

\* provider.chat_stream_struct(&messages).await returns
StreamCallReturns(n, res) ==
    /\ TaskMayRun(n)
    /\ tasks[n].pc = "chat_stream_struct"
    /\ tasks' = [tasks EXCEPT ![n] =
         IF res = "Ok"
           THEN [@ EXCEPT !.acquired = TRUE, !.pc = "next",
                          !.out = <<Begin(tasks[n].entity, n)>>]
           ELSE [@ EXCEPT !.pc = "chat", !.calls = Append(@, "chat"),
                          !.callee = @ \cup {tasks[n].provider},
                          !.rejected = Some(res)]]
    /\ UNCHANGED <<inbox, Others>>

\* a one-shot call whose failure is announced with a Begin before the Err
ChatReturnsBeginsBeforeErr(n, res) ==
    /\ TaskMayRun(n)
    /\ tasks[n].pc = "chat"
    /\ tasks' = [tasks EXCEPT ![n] =
         IF res.ok
           THEN [@ EXCEPT !.text = res.text, !.pc = "memory_contents",
                          !.calls = Append(@, "memory_contents"),
                          !.callee = @ \cup {tasks[n].provider}]
           ELSE [@ EXCEPT !.pc = "returned",
                          !.out = <<Begin(tasks[n].entity, n),
                                    Err(tasks[n].entity, n, res.error)>>]]
    /\ UNCHANGED <<inbox, Others>>

\* provider.chat(&messages).await returns
ChatReturns(n, res) ==
    /\ TaskMayRun(n)
    /\ tasks[n].pc = "chat"
    /\ tasks' = [tasks EXCEPT ![n] =
         IF res.ok
           THEN [@ EXCEPT !.text = res.text, !.pc = "memory_contents",
                          !.calls = Append(@, "memory_contents"),
                          !.callee = @ \cup {tasks[n].provider}]
           ELSE [@ EXCEPT !.pc = "returned",
                          !.out = <<Err(tasks[n].entity, n, res.error)>>]]
    /\ UNCHANGED <<inbox, Others>>

\* s.next().await returns Some(Ok(StreamResponse { choices, .. }))
NextReturnsOk(n, choices) ==
    /\ TaskMayRun(n)
    /\ tasks[n].pc = "next" /\ tasks[n].out = <<>>
    /\ tasks[n].nchunks < bound.chunks
    /\ LET t == tasks[n]
           st == ProcessChoices(choices,
                     [buf |-> t.buf, last_text |-> t.last_text, out |-> <<>>],
                     t.entity, n)
       IN  tasks' = [tasks EXCEPT ![n] =
               [@ EXCEPT !.buf = st.buf, !.last_text = st.last_text,
                         !.out = st.out, !.nchunks = @ + 1,
                         !.arrivals = @ \o Arrivals(choices)]]
    /\ UNCHANGED <<inbox, Others>>

\* an error of the stream that is answered by the one-shot call
NextReturnsErrFallsBack(n, err) ==
    /\ TaskMayRun(n)
    /\ tasks[n].pc = "next" /\ tasks[n].out = <<>>
    /\ tasks' = [tasks EXCEPT ![n] =
         [@ EXCEPT !.buf = "", !.pc = "chat", !.calls = Append(@, "chat")]]
    /\ UNCHANGED <<inbox, Others>>

\* s.next().await returns Some(Err(err))
NextReturnsErr(n, err) ==
    /\ TaskMayRun(n)
    /\ tasks[n].pc = "next" /\ tasks[n].out = <<>>
    /\ tasks' = [tasks EXCEPT ![n] =
         [@ EXCEPT !.out = ErrorArmPushes(tasks[n].buf, tasks[n].entity, n, err),
                   !.buf = "", !.pc = "returned"]]
    /\ UNCHANGED <<inbox, Others>>

\* s.next().await returns None: the stream has ended
NextReturnsNone(n) ==
    /\ TaskMayRun(n)
    /\ tasks[n].pc = "next" /\ tasks[n].out = <<>>
    /\ tasks' = [tasks EXCEPT ![n] =
         [@ EXCEPT !.out = FlushTail(tasks[n].buf, tasks[n].entity, n), !.buf = "",
                   !.pc = "memory_contents",
                   !.calls = Append(@, "memory_contents"),
                   !.callee = @ \cup {tasks[n].provider}]]
    /\ UNCHANGED <<inbox, Others>>

\* a block that passes the history on as it is, without reconciling it
MemoryReturnsUnmerged(n, contents) ==
    /\ TaskMayRun(n)
    /\ tasks[n].pc = "memory_contents" /\ tasks[n].out = <<>>
    /\ LET t == tasks[n]
           mem == NonEmptyMemory(contents)
       IN  tasks' = [tasks EXCEPT ![n] =
             [@ EXCEPT !.pc = "returned", !.snapshot = Some(contents),
                       !.out = IF t.acquired
                                 THEN <<Done(t.entity, n, FinalText(t.last_text), mem)>>
                                 ELSE OneShotPushes(t.entity, n, t.text, mem)]]
    /\ UNCHANGED <<inbox, Others>>

\* provider.memory_contents().await returns
MemoryReturns(n, contents) ==
    /\ TaskMayRun(n)
    /\ tasks[n].pc = "memory_contents" /\ tasks[n].out = <<>>
    /\ LET t == tasks[n]
           mem == NonEmptyMemory(contents)
       IN  tasks' = [tasks EXCEPT ![n] =
             [@ EXCEPT !.pc = "returned", !.snapshot = Some(contents),
                       !.out = IF t.acquired
                                 THEN <<Done(t.entity, n, FinalText(t.last_text),
                                             merge_memory_with_final(mem, FinalText(t.last_text)))>>
                                 ELSE OneShotPushes(t.entity, n, t.text, mem)]]
    /\ UNCHANGED <<inbox, Others>>

\* the next push_inbox call of the block returns
TaskPush(n) ==
    /\ TaskMayRun(n)
    /\ Sending(n)
    /\ LET sent == push_inbox(inbox, Head(tasks[n].out))
       IN  /\ sent.returns
           /\ inbox' = sent.queue
           /\ tasks' = [tasks EXCEPT ![n] =
                 [@ EXCEPT !.out = Tail(@),
                           !.pushed = IF sent.queue = inbox THEN @
                                      ELSE Append(@, Head(tasks[n].out))]]
    /\ UNCHANGED Others

---------------------------------------------------------------------------
(* Notifications: the events of the five EventWriters.  `turns` of a       *)
(* ChatDeltaEvt records the tasks whose Deltas were joined into its text;  *)
(* it is not a field of the source's struct.                               *)

ChatStarted(e) == [kind |-> "ChatStarted", entity |-> e]
ChatDeltaEvt(e, text, turns) ==
    [kind |-> "ChatDeltaEvt", entity |-> e, text |-> text, turns |-> turns]
ChatToolCallsEvt(e, calls) ==
    [kind |-> "ChatToolCallsEvt", entity |-> e, calls |-> calls]
ChatCompletedEvt(e, final_text, memory) ==
    [kind |-> "ChatCompletedEvt", entity |-> e,
     final_text |-> final_text, memory |-> memory]
ChatErrorEvt(e, error) == [kind |-> "ChatErrorEvt", entity |-> e, error |-> error]

\* s with f applied to each element
Map(s, f(_)) == [i \in 1..Len(s) |-> f(s[i])]

OfType(s, type) == SelectSeq(s, LAMBDA m : m.type = type)

\* a loop over try_recv that runs once too often (0..=MAX_PER_FRAME)
PoppedOneMore(q, cap) == SubSeq(q, 1, Min(Len(q), cap + 1))

(* drain_stream_inbox, the loop over try_recv: the messages it pops from a *)
(* channel holding q, at most cap of them.                                 *)
Popped(q, cap) == SubSeq(q, 1, Min(Len(q), cap))

\* what the channel holds after the loop
Remaining(q, cap) == SubSeq(q, Min(Len(q), cap) + 1, Len(q))

\* a delta_map with one entry for all entities: the texts of all Deltas
DeltaTextsAllHandles(batch, e) ==
    LET deltas == SelectSeq(batch, LAMBDA m : m.type = "Delta")
    IN  [i \in 1..Len(deltas) |-> deltas[i].text]

\* the texts of the Deltas of entity e in batch, in order
DeltaTexts(batch, e) ==
    LET deltas == SelectSeq(batch, LAMBDA m : m.type = "Delta" /\ m.entity = e)
    IN  [i \in 1..Len(deltas) |-> deltas[i].text]

\* delta_map with the texts joined newest first
DeltaTextReversed(batch, e) == Concat(Reverse(DeltaTexts(batch, e)))

\* delta_map: the entry of entity e after the loop over the popped messages
DeltaText(batch, e) == Concat(DeltaTexts(batch, e))

\* the keys of delta_map
DeltaKeys(batch) == {m.entity : m \in SeqToSet(OfType(batch, "Delta"))}

DeltaTurns(batch, e) ==
    Map(SelectSeq(batch, LAMBDA m : m.type = "Delta" /\ m.entity = e),
        LAMBDA m : m.turn)

\* the events written with the Completed events first
EmittedDoneFirst(batch, order) ==
    Map(OfType(batch, "Done"),
        LAMBDA m : ChatCompletedEvt(m.entity, m.final_text, m.memory))
    \o Map(order, LAMBDA e : ChatDeltaEvt(e, DeltaText(batch, e), DeltaTurns(batch, e)))
    \o Map(OfType(batch, "Tool"), LAMBDA m : ChatToolCallsEvt(m.entity, m.calls))
    \o Map(OfType(batch, "Err"), LAMBDA m : ChatErrorEvt(m.entity, m.error))

\* the loop that writes the Failed events left out
EmittedWithoutErrs(batch, order) ==
    Map(order, LAMBDA e : ChatDeltaEvt(e, DeltaText(batch, e), DeltaTurns(batch, e)))
    \o Map(OfType(batch, "Tool"), LAMBDA m : ChatToolCallsEvt(m.entity, m.calls))
    \o Map(OfType(batch, "Done"),
           LAMBDA m : ChatCompletedEvt(m.entity, m.final_text, m.memory))

(* The events one run of drain_stream_inbox writes for its vector `batch`  *)
(* of popped messages (`drained` in the source), with the                  *)
(* HashMap delta_map iterated in the order `order` of its keys.             *)
Emitted(batch, order) ==
    Map(order, LAMBDA e : ChatDeltaEvt(e, DeltaText(batch, e), DeltaTurns(batch, e)))
    \o Map(OfType(batch, "Tool"), LAMBDA m : ChatToolCallsEvt(m.entity, m.calls))
    \o Map(OfType(batch, "Done"),
           LAMBDA m : ChatCompletedEvt(m.entity, m.final_text, m.memory))
    \o Map(OfType(batch, "Err"), LAMBDA m : ChatErrorEvt(m.entity, m.error))

---------------------------------------------------------------------------
(* The systems of the Update schedule and the host.                        *)

\* the entities the query (Entity, &ChatSession, &ChatRequest) matches
Matched == {e \in Entities : IsSome(session[e]) /\ IsSome(request[e])}

RECURSIVE Spawned(_)
Spawned(order) ==
    IF order = <<>> THEN <<>>
    ELSE LET e == Head(order)
         IN  <<NewTask(e, ProvidersGet(providers, Unwrap(session[e]).key),
                       Unwrap(request[e]).messages, Unwrap(session[e]).stream)>>
             \o Spawned(Tail(order))

\* a run that spawns the tasks and writes no ChatStarted
IntakeWithoutStarted(order) ==
    /\ MainMayRun
    /\ "spawn_chat_requests" \notin ran
    /\ ran' = ran \cup {"spawn_chat_requests"}
    /\ pendingRemove' = pendingRemove \cup SeqToSet(order)
    /\ tasks' = tasks \o Spawned(order)
    /\ UNCHANGED <<wasm, capacity, maxPerFrame, providers, session, request,
                   inbox, events, bound, unit>>

\* a run that takes the ChatSession off the entities it dispatches
IntakeConsumesSession(order) ==
    /\ MainMayRun
    /\ "spawn_chat_requests" \notin ran
    /\ ran' = ran \cup {"spawn_chat_requests"}
    /\ pendingRemove' = pendingRemove \cup SeqToSet(order)
    /\ events' = events \o Map(order, ChatStarted)
    /\ tasks' = tasks \o Spawned(order)
    /\ session' = [e \in Entities |-> IF e \in SeqToSet(order) THEN None ELSE session[e]]
    /\ UNCHANGED <<wasm, capacity, maxPerFrame, providers, request,
                   inbox, bound, unit>>

\* spawn_chat_requests, the query iterated in the order `order`
Intake(order) ==
    /\ MainMayRun
    /\ "spawn_chat_requests" \notin ran
    /\ ran' = ran \cup {"spawn_chat_requests"}
    /\ pendingRemove' = pendingRemove \cup SeqToSet(order)
    /\ events' = events \o Map(order, ChatStarted)
    /\ tasks' = tasks \o Spawned(order)
    /\ UNCHANGED <<wasm, capacity, maxPerFrame, providers, session, request,
                   inbox, bound, unit>>

\* drain_stream_inbox
Drain(order) ==
    /\ MainMayRun
    /\ "drain_stream_inbox" \notin ran
    /\ ran' = ran \cup {"drain_stream_inbox"}
    /\ LET drained == Popped(inbox, maxPerFrame)
       IN  /\ order \in Orders(DeltaKeys(drained))
           /\ inbox' = Remaining(inbox, maxPerFrame)
           /\ events' = events \o Emitted(drained, order)
    /\ tasks' = [n \in Turns |->
                   IF Waiting(n) /\ IsTerminal(Head(tasks[n].out))
                     THEN [tasks[n] EXCEPT !.waited = TRUE]
                     ELSE tasks[n]]
    /\ UNCHANGED <<wasm, capacity, maxPerFrame, providers, session, request,
                   pendingRemove, bound, unit>>

\* a schedule that ends as soon as one of its systems has run
EndOfUpdateEarly ==
    /\ MainMayRun
    /\ ran # {}
    /\ ran' = {}
    /\ request' = [e \in Entities |-> IF e \in pendingRemove THEN None ELSE request[e]]
    /\ pendingRemove' = {}
    /\ UNCHANGED <<wasm, capacity, maxPerFrame, providers, session, tasks, inbox,
                   events, bound, unit>>

\* a schedule end that drops the queued commands instead of applying them
EndOfUpdateKeepsRequests ==
    /\ MainMayRun
    /\ ran = {"spawn_chat_requests", "drain_stream_inbox"}
    /\ ran' = {}
    /\ pendingRemove' = {}
    /\ UNCHANGED <<wasm, capacity, maxPerFrame, providers, session, request, tasks,
                   inbox, events, bound, unit>>

(* The end of the schedule: the queued commands are applied, which removes *)
(* ChatRequest from the entities spawn_chat_requests visited.              *)
EndOfUpdate ==
    /\ MainMayRun
    /\ ran = {"spawn_chat_requests", "drain_stream_inbox"}
    /\ ran' = {}
    /\ request' = [e \in Entities |-> IF e \in pendingRemove THEN None ELSE request[e]]
    /\ pendingRemove' = {}
    /\ UNCHANGED <<wasm, capacity, maxPerFrame, providers, session, tasks, inbox,
                   events, bound, unit>>

ChatRequest(messages) == [messages |-> messages]

\* the texts the host sends
UserTexts == bound.texts

(* The component an insert of `req` leaves on an entity, with a record of   *)
(* the call that made it: `given` is the text passed to send_user_text and  *)
(* `overwrote` the message list of the ChatRequest the insert replaced      *)
(* before spawn_chat_requests had visited it.  The two are not fields of    *)
(* the source's struct and the program reads neither.                       *)
Inserted(req, given, prior, visited) ==
    [messages |-> req.messages, given |-> given,
     overwrote |-> IF IsSome(prior) /\ ~visited
                     THEN Some(Unwrap(prior).messages) ELSE None]

\* the host has attached a request with the one message `text` to entity e
Holds(e, text) ==
    IsSome(request[e]) /\ Unwrap(request[e]).messages = <<UserMessage(text)>>

\* an insert that leaves a ChatRequest that is already there as it is
send_user_text_keeps_first(e, text) ==
    /\ MainMayRun
    /\ IsSome(session[e])
    /\ Len(tasks) + Cardinality({x \in Entities : IsSome(request[x])} \cup {e}) <= bound.turns
    /\ ~Holds(e, text)
    /\ request' = [request EXCEPT ![e] =
          Some(Inserted(IF IsSome(request[e]) THEN Unwrap(request[e])
                        ELSE ChatRequest(<<UserMessage(text)>>),
                        text, request[e], e \in pendingRemove))]
    /\ UNCHANGED <<wasm, capacity, maxPerFrame, providers, session, pendingRemove,
                   ran, tasks, inbox, events, bound, unit>>

\* a send that adds its message to the list of the ChatRequest already there
send_user_text_appends(e, text) ==
    /\ MainMayRun
    /\ IsSome(session[e])
    /\ Len(tasks) + Cardinality({x \in Entities : IsSome(request[x])} \cup {e}) <= bound.turns
    /\ ~Holds(e, text)
    /\ request' = [request EXCEPT ![e] =
          Some(Inserted(ChatRequest((IF IsSome(request[e])
                                       THEN Unwrap(request[e]).messages ELSE <<>>)
                                    \o <<UserMessage(text)>>),
                        text, request[e], e \in pendingRemove))]
    /\ UNCHANGED <<wasm, capacity, maxPerFrame, providers, session, pendingRemove,
                   ran, tasks, inbox, events, bound, unit>>

(* The host inserts ChatRequest on entity e: send_user_text(commands, e,    *)
(* text).  The insert replaces a ChatRequest the entity already has.  A     *)
(* send of the text the entity's request already holds changes nothing.     *)
send_user_text(e, text) ==
    /\ MainMayRun
    /\ IsSome(session[e])
    /\ Len(tasks) + Cardinality({x \in Entities : IsSome(request[x])} \cup {e}) <= bound.turns
    /\ ~Holds(e, text)
    /\ request' = [request EXCEPT ![e] =
          Some(Inserted(ChatRequest(<<UserMessage(text)>>), text, request[e],
                        e \in pendingRemove))]
    /\ UNCHANGED <<wasm, capacity, maxPerFrame, providers, session, pendingRemove,
                   ran, tasks, inbox, events, bound, unit>>

---------------------------------------------------------------------------
ChatSession(key, stream) == [key |-> key, stream |-> stream]

\* entity 1 names no provider and streams; the others name the keyed
\* provider and do not stream
SessionKey(e) == IF e = 1 THEN None ELSE Some("fast")
SessionStream(e) == e = 1

Registry == [default |-> "default", per_key |-> [k \in {"fast"} |-> "keyed"]]

\* no pure function is called on its own
NoCall ==
    [fn |-> "none", mem |-> None, final_text |-> None,
     reg |-> ProvidersNew("default"), key |-> None, results |-> <<>>]

InitCommon ==
    /\ wasm \in BOOLEAN
    /\ providers = Registry
    /\ session = [e \in Entities |-> Some(ChatSession(SessionKey(e), SessionStream(e)))]
    /\ request = [e \in Entities |-> None]
    /\ pendingRemove = {}
    /\ ran = {}
    /\ tasks = <<>>
    /\ events = <<>>

Init ==
    /\ InitCommon
    /\ unit = NoCall
    /\ capacity = SmallCapacity
    /\ maxPerFrame = SmallPerFrame
    /\ inbox = <<>>
    /\ bound = [turns |-> MaxTurns, chunks |-> MaxChunks, choices |-> 1,
                texts |-> {"hi"}, contents |-> {"ab"}, late |-> {FALSE},
                calls |-> {<<"call">>}, chatTexts |-> {"there"},
                memories |-> {None}]

(* One turn at a time, with the full range of provider answers.            *)
TurnInit ==
    /\ InitCommon
    /\ unit = NoCall
    /\ capacity = SmallCapacity
    /\ maxPerFrame = SmallPerFrame
    /\ inbox = <<>>
    /\ bound = [turns |-> 1, chunks |-> TurnChunks, choices |-> TurnChoices,
                texts |-> {"hi"},
                contents |-> {"ab", LongText}, late |-> BOOLEAN,
                calls |-> {<<"call">>}, chatTexts |-> {"", "there"},
                memories |-> {None, Some(<<>>), Some(<<UserMessage("hi")>>),
                              Some(<<UserMessage("hi"), AssistantMessage("there")>>)}]

(* The channel and the cap at their real sizes.  The channel starts with a *)
(* burst of messages that turns which ended before the behaviour starts    *)
(* have left behind (turn 0), spread over the entities: in every twelve    *)
(* messages a Begin, two Done, an Err, tool calls numbered in push order   *)
(* and Deltas of one digit.                                                *)
Digits == <<"0", "1", "2", "3", "4", "5", "6", "7", "8", "9">>

BurstMsg(i) ==
    LET e == 1 + ((i \div 3) % NumEntities)
        digit == Digits[1 + ((i \div 2) % 10)]
        k == i % 12
    IN  IF k = 0 THEN Begin(e, 0)
        ELSE IF k = 1 THEN Done(e, 0, Some(digit), Some(<<UserMessage(digit)>>))
        ELSE IF k = 11 THEN Done(e, 0, None, None)
        ELSE IF k = 7 THEN Err(e, 0, digit)
        ELSE IF k % 2 = 0 THEN Delta(e, 0, digit)
        ELSE Tool(e, 0, <<i>>)

Burst(n) == [i \in 1..n |-> BurstMsg(i)]

BurstInit ==
    /\ InitCommon
    /\ unit = NoCall
    /\ capacity = INBOX_CAPACITY
    /\ maxPerFrame = MAX_PER_FRAME
    /\ inbox = Burst(BurstSize)
    /\ bound = [turns |-> 1, chunks |-> 1, choices |-> 1,
                texts |-> {"hi"}, contents |-> {"ab"}, late |-> {FALSE},
                calls |-> {<<"call">>}, chatTexts |-> {"there"},
                memories |-> {None}]

Next ==
    \/ \E e \in Entities, text \in UserTexts : send_user_text(e, text)
    \/ \E order \in Orders(Matched) : Intake(order)
    \/ \E order \in SeqsUpTo(Entities, NumEntities) : Drain(order)
    \/ EndOfUpdate
    \/ \E n \in Turns, res \in {"Ok"} \cup StreamCallErrors : StreamCallReturns(n, res)
    \/ \E n \in Turns, text \in ChatTexts : ChatReturns(n, [ok |-> TRUE, text |-> text])
    \/ \E n \in Turns, err \in ChatErrors : ChatReturns(n, [ok |-> FALSE, error |-> err])
    \/ \E n \in Turns, choices \in Responses : NextReturnsOk(n, choices)
    \/ \E n \in Turns, err \in NextErrors : NextReturnsErr(n, err)
    \/ \E n \in Turns : NextReturnsNone(n)
    \/ \E n \in Turns, contents \in Memories : MemoryReturns(n, contents)
    \/ \E n \in Turns : TaskPush(n)

Spec == Init /\ [][Next]_vars

TurnSpec == TurnInit /\ [][Next]_vars

BurstSpec == BurstInit /\ [][Next]_vars

\* the next system of the Update schedule runs, or the schedule ends
TickStep ==
    \/ \E order \in Orders(Matched) : Intake(order)
    \/ \E order \in SeqsUpTo(Entities, NumEntities) : Drain(order)
    \/ EndOfUpdate

\* the block of turn n takes its next step
TaskStep(n) ==
    /\ n \in Turns
    /\ \/ \E res \in {"Ok"} \cup StreamCallErrors : StreamCallReturns(n, res)
       \/ \E text \in ChatTexts : ChatReturns(n, [ok |-> TRUE, text |-> text])
       \/ \E err \in ChatErrors : ChatReturns(n, [ok |-> FALSE, error |-> err])
       \/ \E choices \in Responses : NextReturnsOk(n, choices)
       \/ \E err \in NextErrors : NextReturnsErr(n, err)
       \/ NextReturnsNone(n)
       \/ \E contents \in Memories : MemoryReturns(n, contents)
       \/ TaskPush(n)

(* TurnSpec with the scheduling the program runs under: the app keeps      *)
(* running its schedule, every provider call returns, every stream ends    *)
(* (after at most bound.chunks items) and the executor runs a block that   *)
(* can go on (on wasm between two runs of the schedule).                   *)
LiveSpec ==
    /\ TurnInit
    /\ [][Next]_vars
    /\ WF_vars(TickStep)
    /\ \A n \in 1..MaxTurns : SF_vars(TaskStep(n))

---------------------------------------------------------------------------
(* The host changes the world while turns are in flight: it despawns a     *)
(* session entity, replaces the Providers resource and changes the fields  *)
(* of a ChatSession.                                                       *)

\* the registry the host rebuilds
Rebuilt == ProvidersNew("rebuilt")

HostRegistries == {Registry, Rebuilt}

\* the values the host gives a ChatSession: the keyed provider with
\* streaming, and the default provider without
HostSessions == {ChatSession(Some("fast"), TRUE), ChatSession(None, FALSE)}

\* a turn of entity e has been dispatched and its block has not ended
InFlight(e) == \E n \in Turns : tasks[n].entity = e /\ ~Returned(n)

\* the host despawns entity e while a turn of e is in flight
despawn(e) ==
    /\ MainMayRun
    /\ IsSome(session[e])
    /\ InFlight(e)
    /\ session' = [session EXCEPT ![e] = None]
    /\ request' = [request EXCEPT ![e] = None]
    /\ UNCHANGED <<wasm, capacity, maxPerFrame, providers, pendingRemove, ran,
                   tasks, inbox, events, bound, unit>>

\* commands.insert_resource(Providers::new(provider)) while a turn is in
\* flight: the resource is replaced as a whole
insert_providers(reg) ==
    /\ MainMayRun
    /\ \E e \in Entities : InFlight(e)
    /\ reg # providers
    /\ providers' = reg
    /\ UNCHANGED <<wasm, capacity, maxPerFrame, session, request, pendingRemove,
                   ran, tasks, inbox, events, bound, unit>>

\* the host writes the pub fields key and stream of the ChatSession of an
\* entity while a turn of the entity is in flight
set_session(e, key, stream) ==
    /\ MainMayRun
    /\ IsSome(session[e])
    /\ InFlight(e)
    /\ session[e] # Some(ChatSession(key, stream))
    /\ session' = [session EXCEPT ![e] = Some(ChatSession(key, stream))]
    /\ UNCHANGED <<wasm, capacity, maxPerFrame, providers, request, pendingRemove,
                   ran, tasks, inbox, events, bound, unit>>

\* the native executor and one session entity, which names the keyed provider
\* and streams; streams deliver no content, one-shot calls answer "there"
HostInit ==
    /\ wasm = FALSE
    /\ providers = Registry
    /\ session = [e \in Entities |->
                    IF e = 1 THEN Some(ChatSession(Some("fast"), TRUE)) ELSE None]
    /\ request = [e \in Entities |-> None]
    /\ pendingRemove = {}
    /\ ran = {}
    /\ tasks = <<>>
    /\ events = <<>>
    /\ unit = NoCall
    /\ capacity = INBOX_CAPACITY
    /\ maxPerFrame = MAX_PER_FRAME
    /\ inbox = <<>>
    /\ bound = [turns |-> HostTurns, chunks |-> 1, choices |-> 1,
                texts |-> {"hi"}, contents |-> {}, late |-> {FALSE},
                calls |-> {}, chatTexts |-> {"there"},
                memories |-> {None}]

HostNext ==
    \/ \E e \in Entities, text \in UserTexts : send_user_text(e, text)
    \/ \E order \in Orders(Matched) : Intake(order)
    \/ \E order \in SeqsUpTo(Entities, NumEntities) : Drain(order)
    \/ EndOfUpdate
    \/ \E n \in Turns, res \in {"Ok"} \cup StreamCallErrors : StreamCallReturns(n, res)
    \/ \E n \in Turns, text \in ChatTexts : ChatReturns(n, [ok |-> TRUE, text |-> text])
    \/ \E n \in Turns, err \in ChatErrors : ChatReturns(n, [ok |-> FALSE, error |-> err])
    \/ \E n \in Turns, choices \in Responses : NextReturnsOk(n, choices)
    \/ \E n \in Turns, err \in NextErrors : NextReturnsErr(n, err)
    \/ \E n \in Turns : NextReturnsNone(n)
    \/ \E n \in Turns, contents \in Memories : MemoryReturns(n, contents)
    \/ \E n \in Turns : TaskPush(n)
    \/ \E e \in Entities : despawn(e)
    \/ \E reg \in HostRegistries : insert_providers(reg)
    \/ \E e \in Entities, s \in HostSessions : set_session(e, s.key, s.stream)

HostSpec == HostInit /\ [][HostNext]_vars

---------------------------------------------------------------------------
(* One turn, for which the host sends "hi" or "hello world" or one after   *)
(* the other, and whose stream delivers up to three chunks out of "Hel",   *)
(* "lo wo" and "rld!", each early or late, with the channel and the cap at *)
(* their real sizes, so that one run of Drain can pop a whole turn.        *)
ScenarioInit ==
    /\ InitCommon
    /\ unit = NoCall
    /\ capacity = INBOX_CAPACITY
    /\ maxPerFrame = MAX_PER_FRAME
    /\ inbox = <<>>
    /\ bound = [turns |-> 1, chunks |-> ScenarioChunks, choices |-> 1,
                texts |-> {"hi", "hello world"}, contents |-> {"Hel", "lo wo", "rld!"},
                late |-> BOOLEAN, calls |-> {}, chatTexts |-> {"there"},
                memories |-> {None}]

ScenarioSpec == ScenarioInit /\ [][Next]_vars

---------------------------------------------------------------------------
(* The channel at its real size and all but full: the tick loop has        *)
(* stalled while the stream of an earlier turn of entity 1 (turn 0) pushed *)
(* its Begin and one Delta after the other, and one more turn is           *)
(* dispatched.                                                             *)
Stalled(n) ==
    [i \in 1..n |-> IF i = 1 THEN Begin(1, 0)
                               ELSE Delta(1, 0, Digits[1 + (i % 10)])]

FullInit ==
    /\ InitCommon
    /\ unit = NoCall
    /\ capacity = INBOX_CAPACITY
    /\ maxPerFrame = MAX_PER_FRAME
    /\ inbox = Stalled(NearFull)
    /\ bound = [turns |-> 1, chunks |-> 1, choices |-> 1,
                texts |-> {"hi"}, contents |-> {"ab"}, late |-> {FALSE},
                calls |-> {}, chatTexts |-> {"there"},
                memories |-> {None}]

FullSpec == FullInit /\ [][Next]_vars

---------------------------------------------------------------------------
(* A host that sends a second, different text to the one session entity    *)
(* while the turn of the first is being dispatched or is in flight.        *)
ReattachInit ==
    /\ wasm = FALSE
    /\ providers = Registry
    /\ session = [e \in Entities |->
                    IF e = 1 THEN Some(ChatSession(Some("fast"), TRUE)) ELSE None]
    /\ request = [e \in Entities |-> None]
    /\ pendingRemove = {}
    /\ ran = {}
    /\ tasks = <<>>
    /\ events = <<>>
    /\ unit = NoCall
    /\ capacity = INBOX_CAPACITY
    /\ maxPerFrame = MAX_PER_FRAME
    /\ inbox = <<>>
    /\ bound = [turns |-> HostTurns, chunks |-> 1, choices |-> 1,
                texts |-> {"hi", "hello world"}, contents |-> {},
                late |-> {FALSE}, calls |-> {}, chatTexts |-> {"there"},
                memories |-> {None}]

ReattachSpec == ReattachInit /\ [][Next]_vars

---------------------------------------------------------------------------
(* The pure functions of the crate, each called on its own on arguments    *)
(* drawn from bounded sets: merge_memory_with_final on a snapshot and a    *)
(* final text, and then once more on its own result with the same final    *)
(* text, and Providers::get on a registry and a key.                       *)

UnitMessages ==
    {UserMessage("hi"), UserMessage("there"),
     AssistantMessage("hi"), AssistantMessage("there")}

\* Option<Vec<ChatMessage>>, of at most MaxSnapshot messages
Snapshots == {None} \cup {Some(m) : m \in SeqsUpTo(UnitMessages, MaxSnapshot)}

\* Option<&str>
FinalTexts == {None, Some(""), Some("hi"), Some("there")}

Registries ==
    {ProvidersNew("default"),
     ProvidersWith(ProvidersNew("default"), "fast", "keyed"),
     ProvidersWith(ProvidersWith(ProvidersNew("default"), "fast", "keyed"),
                   "smart", "keyed2")}

\* Option<&String>
Keys == {None, Some("fast"), Some("smart"), Some("slow")}

UnitInit ==
    /\ InitCommon
    /\ capacity = INBOX_CAPACITY
    /\ maxPerFrame = MAX_PER_FRAME
    /\ inbox = <<>>
    /\ bound = [turns |-> 0, chunks |-> 0, choices |-> 0,
                texts |-> {}, contents |-> {}, late |-> {},
                calls |-> {}, chatTexts |-> {}, memories |-> {}]
    /\ unit \in {[NoCall EXCEPT !.fn = "merge_memory_with_final",
                                 !.mem = mem, !.final_text = final_text] :
                      mem \in Snapshots, final_text \in FinalTexts}
                 \cup {[NoCall EXCEPT !.fn = "Providers::get", !.reg = reg, !.key = key] :
                         reg \in Registries, key \in Keys}

\* merge_memory_with_final(mem, final_text), on the arguments and then on
\* its own result
CallMerge ==
    /\ unit.fn = "merge_memory_with_final"
    /\ Len(unit.results) < 2
    /\ unit' = [unit EXCEPT !.results =
                   Append(@, merge_memory_with_final(
                                 IF @ = <<>> THEN unit.mem ELSE @[Len(@)],
                                 unit.final_text))]
    /\ UNCHANGED <<wasm, capacity, maxPerFrame, providers, session, request,
                   pendingRemove, ran, tasks, inbox, events, bound>>

\* providers.get(key)
CallGet ==
    /\ unit.fn = "Providers::get"
    /\ unit.results = <<>>
    /\ unit' = [unit EXCEPT !.results = <<ProvidersGet(unit.reg, unit.key)>>]
    /\ UNCHANGED <<wasm, capacity, maxPerFrame, providers, session, request,
                   pendingRemove, ran, tasks, inbox, events, bound>>

UnitNext ==
    \/ CallMerge
    \/ CallGet

UnitSpec == UnitInit /\ [][UnitNext]_vars

---------------------------------------------------------------------------
(* Properties.                                                             *)

Terminals(msgs) == SelectSeq(msgs, IsTerminal)

\* the texts of the Delta messages of msgs, joined in order
JoinedDeltas(msgs) ==
    LET deltas == SelectSeq(msgs, LAMBDA m : m.type = "Delta")
    IN  Concat([i \in 1..Len(deltas) |-> deltas[i].text])

\* C1: a task never has more than one terminal message (Done or Err) in the
\* channel's history, and a task that has run to its end, on whichever path,
\* has put exactly one there.
C1_ExactlyOneTerminal ==
    \A n \in Turns :
        /\ Len(Terminals(tasks[n].pushed)) <= 1
        /\ Returned(n) => Len(Terminals(tasks[n].pushed)) = 1

\* a streaming turn whose streaming call was rejected and whose one-shot call
\* then succeeded has run to its end
C1_Witness ==
    \E n \in Turns :
        /\ Returned(n) /\ IsSome(tasks[n].rejected)
        /\ tasks[n].pushed[Len(tasks[n].pushed)].type = "Done"

\* the turns up to n dispatched for the entity of turn n
TurnsBefore(n) == {m \in Turns : m <= n /\ tasks[m].entity = tasks[n].entity}

\* the Completed and Failed notifications written for entity e
TerminalEvents(e) ==
    SelectSeq(events, LAMBDA ev :
        ev.entity = e /\ ev.kind \in {"ChatCompletedEvt", "ChatErrorEvt"})

Answered(n) ==
    /\ n \in Turns
    /\ Len(TerminalEvents(tasks[n].entity)) >= Cardinality(TurnsBefore(n))

C3_PushNeverWaits == \A n \in Turns : ~Waiting(n)

\* C4: the tick loop never waits on a task: also while a task's push finds the
\* channel full, under either executor, the next system of the schedule can run.
C4_TickLoopNeverWaits == (\E n \in Turns : Waiting(n)) => ENABLED TickStep

\* C5: the terminal message of a task is the last message it pushes.
C5_TerminalIsLast ==
    \A n \in Turns : \A i \in 1..Len(tasks[n].pushed) :
        IsTerminal(tasks[n].pushed[i]) =>
            /\ i = Len(tasks[n].pushed)
            /\ tasks[n].out = <<>>

\* a stream failed after text had been buffered: Delta, then Err
C5_Witness ==
    \E n \in Turns :
        /\ Returned(n) /\ tasks[n].acquired
        /\ Len(tasks[n].pushed) >= 3
        /\ tasks[n].pushed[Len(tasks[n].pushed)].type = "Err"
        /\ tasks[n].pushed[Len(tasks[n].pushed) - 1].type = "Delta"

\* the turns dispatched for entity e
HandleTurns(e) == {n \in Turns : tasks[n].entity = e}

IsTerminalEvent(ev) == ev.kind \in {"ChatCompletedEvt", "ChatErrorEvt"}

\* C6: for a handle with a single turn, no TextAppended of the handle is written
\* after its Completed or Failed, however Drain splits the turn's messages and
\* however they interleave with another handle's.
C6_NoTextAfterTerminal ==
    \A e \in Entities :
        Cardinality(HandleTurns(e)) = 1 =>
            \A i, j \in 1..Len(events) :
                (i < j /\ events[i].entity = e /\ IsTerminalEvent(events[i]))
                    => ~(events[j].kind = "ChatDeltaEvt" /\ events[j].entity = e)

\* a single-turn handle's text and Completed were written while the other
\* handle's notifications were written too
C6_Witness ==
    \E e \in Entities : \E i, j, k \in 1..Len(events) :
        /\ Cardinality(HandleTurns(e)) = 1
        /\ i < j
        /\ events[i].kind = "ChatDeltaEvt" /\ events[i].entity = e
        /\ events[j].kind = "ChatCompletedEvt" /\ events[j].entity = e
        /\ events[k].entity # e /\ events[k].kind = "ChatDeltaEvt"

\* the content the stream of a turn has delivered, joined in arrival order
JoinedText(arrivals) ==
    LET texts == SelectSeq(arrivals, LAMBDA a : "text" \in DOMAIN a)
    IN  Concat([i \in 1..Len(texts) |-> texts[i].text])

\* the texts of the TextAppended notifications of entity e, joined in order
JoinedEventText(evs, e) ==
    LET texts == SelectSeq(evs, LAMBDA ev : ev.kind = "ChatDeltaEvt" /\ ev.entity = e)
    IN  Concat([i \in 1..Len(texts) |-> texts[i].text])

CleanEnd(n) ==
    /\ tasks[n].acquired /\ Returned(n)
    /\ tasks[n].pushed # <<>>
    /\ tasks[n].pushed[Len(tasks[n].pushed)].type = "Done"

\* C7: when a stream has ended cleanly, the Delta texts the task pushed, joined
\* in push order, are the content received, which is the final_text of its Done
\* (None exactly when nothing was received); and once the Done is drained, the
\* handle's TextAppended texts join to the same string.
C7_DeltasJoinToContent ==
    \A n \in Turns :
        CleanEnd(n) =>
            LET t == tasks[n]
                received == JoinedText(t.arrivals)
                done == t.pushed[Len(t.pushed)]
            IN  /\ JoinedDeltas(t.pushed) = received
                /\ done.final_text = (IF received = "" THEN None ELSE Some(received))
                /\ (\E i \in 1..Len(events) :
                        events[i].kind = "ChatCompletedEvt" /\ events[i].entity = t.entity)
                    => JoinedEventText(events, t.entity) = received

\* a stream that delivered two texts, one flushed by size and one at the end,
\* has been drained up to its Done
C7_Witness ==
    \E n \in Turns :
        /\ CleanEnd(n)
        /\ Len(SelectSeq(tasks[n].pushed, LAMBDA m : m.type = "Delta")) >= 2
        /\ Len(JoinedText(tasks[n].arrivals)) > MIN_CHARS
        /\ \E i \in 1..Len(events) : events[i].kind = "ChatCompletedEvt"

Systems == {"spawn_chat_requests", "drain_stream_inbox"}

\* C8 as stated: Drain runs in a tick only after that tick's Intake.
C8_DrainAfterIntake ==
    "drain_stream_inbox" \in ran => "spawn_chat_requests" \in ran

\* C8 as amended: in every tick each of the two systems runs exactly once, in
\* no fixed order: a tick ends only when both have run, messages are popped
\* only by the one run of Drain and tasks spawned only by the one run of Intake.
C8_EachSystemOncePerTick ==
    [][/\ ran' # ran =>
            \/ ran = Systems /\ ran' = {}
            \/ \E sys \in Systems \ ran : ran' = ran \cup {sys}
       /\ Len(inbox') < Len(inbox) => "drain_stream_inbox" \in ran' \ ran
       /\ Len(tasks') > Len(tasks) => "spawn_chat_requests" \in ran' \ ran]_vars

\* Drain has run in this tick and Intake, with a request to dispatch, has not
C8_Witness == ran = {"drain_stream_inbox"} /\ Matched # {}

\* one run of drain_stream_inbox
DrainRan == "drain_stream_inbox" \in ran' \ ran

\* the events written by the step
NewEvents == SubSeq(events', Len(events) + 1, Len(events'))

EventsOfKind(evs, kind) == SelectSeq(evs, LAMBDA ev : ev.kind = kind)

\* C9: one run of Drain removes exactly the min(n, 512) oldest of the n queued
\* messages and leaves the rest queued in their order; the tool calls it
\* reports are those of the removed messages, in order.
C9_DrainPopsAtMostCap ==
    [][DrainRan =>
        LET k == Min(Len(inbox), MAX_PER_FRAME)
            oldest == SubSeq(inbox, 1, k)
        IN  /\ inbox' = SubSeq(inbox, k + 1, Len(inbox))
            /\ Map(EventsOfKind(NewEvents, "ChatToolCallsEvt"), LAMBDA ev : ev.calls)
                 = Map(OfType(oldest, "Tool"), LAMBDA m : m.calls)
            /\ Len(EventsOfKind(NewEvents, "ChatCompletedEvt")) = Len(OfType(oldest, "Done"))
            /\ Len(EventsOfKind(NewEvents, "ChatErrorEvt")) = Len(OfType(oldest, "Err"))]_vars

\* of 600 queued messages the first 512 have been processed and the last 88
\* are queued, in their order
C9_Witness ==
    /\ BurstSize = 600
    /\ inbox = SubSeq(Burst(600), 513, 600)
    /\ Len(inbox) = 88
    /\ Map(EventsOfKind(events, "ChatToolCallsEvt"), LAMBDA ev : ev.calls)
         = Map(OfType(SubSeq(Burst(600), 1, 512), "Tool"), LAMBDA m : m.calls)

\* C10: in one run of Drain, a handle with at least one popped Delta gets
\* exactly one TextAppended, whose text is its popped Delta texts joined in
\* arrival order, and a handle with no popped Delta gets none.
C10_OneTextPerHandle ==
    [][DrainRan =>
        \A e \in Entities :
            LET popped == SubSeq(inbox, 1, Len(inbox) - Len(inbox'))
                deltas == SelectSeq(popped, LAMBDA m : m.type = "Delta" /\ m.entity = e)
                texts == SelectSeq(NewEvents,
                                   LAMBDA ev : ev.kind = "ChatDeltaEvt" /\ ev.entity = e)
            IN  IF deltas = <<>> THEN texts = <<>>
                ELSE Len(texts) = 1 /\ texts[1].text = JoinedDeltas(deltas)]_vars

\* one run of Drain has joined several Deltas of each of two handles
C10_Witness ==
    /\ Len(EventsOfKind(events, "ChatDeltaEvt")) = 2
    /\ events[1].entity # events[2].entity
    /\ Len(events[1].text) > 2 /\ Len(events[2].text) > 2

\* the messages the step's run of Drain popped
PoppedNow == SubSeq(inbox, 1, Len(inbox) - Len(inbox'))

\* the burst has been through exactly one run of Drain
FirstDrainOfBurst ==
    /\ inbox = SubSeq(Burst(BurstSize), MAX_PER_FRAME + 1, BurstSize)
    /\ Len(inbox) = BurstSize - MAX_PER_FRAME

\* C11: in one run of Drain, for every handle whose Done is popped together
\* with Deltas of the handle, the TextAppended with the joined text of those
\* Deltas is written before every Completed of the handle.
C11_TextBeforeCompleted ==
    [][DrainRan =>
        \A e \in Entities :
            LET deltas == SelectSeq(PoppedNow, LAMBDA m : m.type = "Delta" /\ m.entity = e)
                dones == SelectSeq(PoppedNow, LAMBDA m : m.type = "Done" /\ m.entity = e)
            IN  (deltas # <<>> /\ dones # <<>>) =>
                    \E i \in 1..Len(NewEvents) :
                        /\ NewEvents[i].kind = "ChatDeltaEvt"
                        /\ NewEvents[i].entity = e
                        /\ NewEvents[i].text = JoinedDeltas(deltas)
                        /\ \A j \in 1..Len(NewEvents) :
                              (NewEvents[j].kind = "ChatCompletedEvt"
                                 /\ NewEvents[j].entity = e) => i < j]_vars

\* the first run of Drain over the burst popped Deltas and Dones of each
\* handle, and wrote each handle's text before its first Completed
C11_Witness ==
    /\ FirstDrainOfBurst
    /\ \A e \in Entities : \E i, j \in 1..Len(events) :
          /\ i < j
          /\ events[i].kind = "ChatDeltaEvt" /\ events[i].entity = e
          /\ events[j].kind = "ChatCompletedEvt" /\ events[j].entity = e
          /\ ~\E k \in 1..(j - 1) :
                events[k].kind = "ChatCompletedEvt" /\ events[k].entity = e

\* the notification the claim gives a popped message of the three kinds
\* that are passed on one by one
Notification(m) ==
    IF m.type = "Done"
      THEN [kind |-> "ChatCompletedEvt", entity |-> m.entity,
            final_text |-> m.final_text, memory |-> m.memory]
    ELSE IF m.type = "Err"
      THEN [kind |-> "ChatErrorEvt", entity |-> m.entity, error |-> m.error]
    ELSE [kind |-> "ChatToolCallsEvt", entity |-> m.entity, calls |-> m.calls]

\* C12: one run of Drain writes, for the messages it popped, one Completed per
\* Done, one Failed per Err and one ToolCallsReceived per ToolCalls, each with
\* the fields of its message and in the order of the messages, nothing for a
\* Begin, nothing else but the TextAppended of C10, and nothing at all when
\* the channel was empty.
C12_DrainPassesOnEveryMessage ==
    [][DrainRan =>
        /\ EventsOfKind(NewEvents, "ChatCompletedEvt")
             = Map(OfType(PoppedNow, "Done"), Notification)
        /\ EventsOfKind(NewEvents, "ChatErrorEvt")
             = Map(OfType(PoppedNow, "Err"), Notification)
        /\ EventsOfKind(NewEvents, "ChatToolCallsEvt")
             = Map(OfType(PoppedNow, "Tool"), Notification)
        /\ Len(NewEvents) = Len(OfType(PoppedNow, "Done")) + Len(OfType(PoppedNow, "Err"))
                              + Len(OfType(PoppedNow, "Tool"))
                              + Cardinality({m.entity : m \in SeqToSet(OfType(PoppedNow, "Delta"))})
        /\ \A i \in 1..Len(NewEvents) : NewEvents[i].kind # "ChatStarted"
        /\ PoppedNow = <<>> => NewEvents = <<>>]_vars

\* the first run of Drain over the burst popped messages of all five kinds
\* and wrote as many Completed and Failed as it popped Done and Err
C12_Witness ==
    /\ FirstDrainOfBurst
    /\ LET popped == SubSeq(Burst(BurstSize), 1, MAX_PER_FRAME)
      IN  /\ \A type \in {"Begin", "Delta", "Tool", "Done", "Err"} :
                OfType(popped, type) # <<>>
          /\ Len(EventsOfKind(events, "ChatCompletedEvt")) = Len(OfType(popped, "Done"))
          /\ Len(EventsOfKind(events, "ChatErrorEvt")) = Len(OfType(popped, "Err"))
          /\ Len(EventsOfKind(events, "ChatErrorEvt")) > 1

\* one run of spawn_chat_requests, and the tasks it spawned
IntakeRan == "spawn_chat_requests" \in ran' \ ran

NewTasks == SubSeq(tasks', Len(tasks) + 1, Len(tasks'))

\* C13: a run of Intake writes one Started and spawns one task, with the
\* request's messages, for each entity that carries a request and nothing for
\* the others; the end of that tick removes the markers Intake visited, so no
\* visited marker is left when Intake runs next; and there are never more
\* tasks and waiting requests than requests the host attaches.
C13_ExactlyOnceDispatch ==
    /\ [][IntakeRan =>
            \A e \in Entities :
                LET started == SelectSeq(NewEvents, LAMBDA ev : ev = ChatStarted(e))
                    spawned == SelectSeq(NewTasks, LAMBDA t : t.entity = e)
                IN  IF IsSome(session[e]) /\ IsSome(request[e])
                      THEN /\ Len(started) = 1 /\ Len(spawned) = 1
                           /\ spawned[1].messages = Unwrap(request[e]).messages
                           /\ e \in pendingRemove'
                      ELSE started = <<>> /\ spawned = <<>>]_vars
    /\ [][(ran # {} /\ ran' = {}) =>
            \A e \in pendingRemove : request'[e] = None /\ e \notin pendingRemove']_vars
    /\ [](pendingRemove # {} => "spawn_chat_requests" \in ran)
    /\ [](Len(tasks) + Cardinality({e \in Entities : IsSome(request[e])} \ pendingRemove)
            <= bound.turns)

\* a handle was dispatched, its marker removed, and after the host attached a
\* new request it was dispatched a second time and that marker removed too
C13_Witness ==
    \E e \in Entities :
        /\ Cardinality(HandleTurns(e)) = 2
        /\ Len(SelectSeq(events, LAMBDA ev : ev = ChatStarted(e))) = 2
        /\ request[e] = None /\ pendingRemove = {} /\ ran = {}

\* C14: Providers::get returns the provider stored under the key when the
\* key is given and is in per_key, the default provider when no key is given
\* or the key is not in per_key, and it returns for every registry and key.
C14_LookupIsTotal ==
    unit.fn = "Providers::get" =>
        IF unit.results = <<>> THEN ENABLED CallGet
        ELSE LET found == unit.results[1]
             IN  /\ (IsSome(unit.key) /\ Unwrap(unit.key) \in DOMAIN unit.reg.per_key)
                        => found = unit.reg.per_key[Unwrap(unit.key)]
                 /\ (unit.key = None) => found = unit.reg.default
                 /\ (IsSome(unit.key) /\ Unwrap(unit.key) \notin DOMAIN unit.reg.per_key)
                        => found = unit.reg.default

\* a key that the registry, which has two keys, does not hold got the default
C14_Witness ==
    /\ unit.fn = "Providers::get"
    /\ unit.key = Some("slow")
    /\ DOMAIN unit.reg.per_key = {"fast", "smart"}
    /\ unit.results = <<"default">>

\* C15: merge_memory_with_final returns None when the snapshot is None or
\* empty, whatever the final text.
C15_NeverFabricates ==
    (/\ unit.fn = "merge_memory_with_final"
     /\ unit.results # <<>>
     /\ (unit.mem = None \/ unit.mem = Some(<<>>)))
        => unit.results[1] = None

\* called on an empty snapshot and a non-empty final text
C15_Witness ==
    /\ unit.fn = "merge_memory_with_final"
    /\ unit.mem = Some(<<>>) /\ unit.final_text = Some("there")
    /\ unit.results # <<>> /\ unit.results[1] = None

\* C16: on a non-empty snapshot S, merge_memory_with_final returns S with one
\* assistant message of content t appended exactly when the final text t is
\* given, is not empty and the last entry of S is not an assistant message
\* of content t, and S itself in every other case; S is a prefix of the
\* result, which is at most one entry longer.
C16_AppendsExactlyWhenMissing ==
    (/\ unit.fn = "merge_memory_with_final"
     /\ unit.results # <<>>
     /\ IsSome(unit.mem) /\ Unwrap(unit.mem) # <<>>)
        => LET S == Unwrap(unit.mem)
               given == IsSome(unit.final_text) /\ unit.final_text # Some("")
               appends == given /\ S[Len(S)] # [role |-> "Assistant",
                                                content |-> unit.final_text[1]]
               result == unit.results[1]
           IN  /\ IsSome(result)
               /\ appends => result[1] = S \o <<[role |-> "Assistant",
                                                 content |-> unit.final_text[1]]>>
               /\ ~appends => result[1] = S
               /\ SubSeq(result[1], 1, Len(S)) = S
               /\ Len(result[1]) <= Len(S) + 1

\* called on a snapshot that ends with a user message whose content is the
\* final text: the assistant message was appended
C16_Witness ==
    /\ unit.fn = "merge_memory_with_final"
    /\ unit.mem = Some(<<UserMessage("hi"), UserMessage("there")>>)
    /\ unit.final_text = Some("there")
    /\ unit.results # <<>>
    /\ Len(unit.results[1][1]) = 3

\* C17: merge_memory_with_final called again on its result with the same
\* final text returns that result.
C17_Idempotent ==
    (unit.fn = "merge_memory_with_final" /\ Len(unit.results) = 2)
        => unit.results[2] = unit.results[1]

\* [user: hi] and "there" gave [user: hi, assistant: there], and the second
\* call gave the same
C17_Witness ==
    /\ unit.fn = "merge_memory_with_final"
    /\ unit.mem = Some(<<UserMessage("hi")>>) /\ unit.final_text = Some("there")
    /\ unit.results = <<Some(<<UserMessage("hi"), AssistantMessage("there")>>),
                        Some(<<UserMessage("hi"), AssistantMessage("there")>>)>>

\* every Done a task has built so far, and every Done in the channel
AllDones ==
    UNION {SeqToSet(OfType(tasks[n].pushed \o tasks[n].out, "Done")) : n \in Turns}
    \cup SeqToSet(OfType(inbox, "Done"))

\* C18: no Done message and no Completed notification carries a snapshot
\* that is present and empty.
C18_NoEmptySnapshot ==
    /\ \A m \in AllDones : m.memory # Some(<<>>)
    /\ \A i \in 1..Len(events) :
          events[i].kind = "ChatCompletedEvt" => events[i].memory # Some(<<>>)

\* memory_contents() returned an empty history to a streaming turn that had
\* received text, and the turn's Completed was written without a snapshot
C18_Witness ==
    \E n \in Turns : \E i \in 1..Len(events) :
        /\ tasks[n].acquired /\ Returned(n)
        /\ tasks[n].snapshot = Some(Some(<<>>))
        /\ tasks[n].last_text # ""
        /\ events[i].kind = "ChatCompletedEvt"
        /\ events[i].entity = tasks[n].entity
        /\ events[i].memory = None /\ IsSome(events[i].final_text)

\* the streaming call of turn n failed and its one-shot call then succeeded
FellBack(n) ==
    /\ IsSome(tasks[n].rejected)
    /\ "memory_contents" \in SeqToSet(tasks[n].calls)

\* C19: a streaming turn whose streaming call was rejected and whose one-shot
\* call returned a non-empty text T has pushed, when it ends, exactly Begin,
\* Delta(T) and Done with final_text T.
C19_FallbackPushes ==
    \A n \in Turns :
        (Returned(n) /\ FellBack(n) /\ tasks[n].text # "") =>
            LET t == tasks[n]
            IN  /\ Len(t.pushed) = 3
                /\ t.pushed[1] = [type |-> "Begin", entity |-> t.entity, turn |-> n]
                /\ t.pushed[2] = [type |-> "Delta", entity |-> t.entity, turn |-> n,
                                  text |-> t.text]
                /\ t.pushed[3].type = "Done"
                /\ t.pushed[3].entity = t.entity
                /\ t.pushed[3].final_text = <<t.text>>

\* streaming was reported unsupported, the one-shot call answered "there" and
\* the turn has ended
C19_Witness ==
    \E n \in Turns :
        /\ Returned(n) /\ FellBack(n)
        /\ tasks[n].stream /\ tasks[n].rejected = Some("unsupported")
        /\ tasks[n].text = "there"
        /\ Len(tasks[n].pushed) = 3

\* C20 as stated: the one-shot call is made after a failed streaming call only
\* when the failure is "unsupported"; after any other failure the turn ends
\* with Err and without a one-shot call.
C20_DowngradeOnlyWhenUnsupported ==
    \A n \in Turns :
        (IsSome(tasks[n].rejected) /\ tasks[n].rejected # Some("unsupported")) =>
            "chat" \notin SeqToSet(tasks[n].calls)

\* C20 as amended: after every failure of the streaming call, whatever the
\* error, the one-shot call is made next and nothing is pushed before it
\* returns; the turn ends with Err exactly when the one-shot call failed too,
\* and then with the one-shot call's error alone.
C20_DowngradeOnAnyError ==
    \A n \in Turns :
        IsSome(tasks[n].rejected) =>
            LET t == tasks[n]
            IN  /\ Len(t.calls) >= 2 /\ t.calls[1] = "chat_stream_struct"
                /\ t.calls[2] = "chat"
                /\ ~t.acquired
                /\ t.pc = "chat" => t.pushed = <<>> /\ t.out = <<>>
                /\ Returned(n) =>
                      IF FellBack(n)
                        THEN t.pushed[Len(t.pushed)].type = "Done"
                             /\ OfType(t.pushed, "Err") = <<>>
                        ELSE /\ Len(t.pushed) = 1 /\ t.pushed[1].type = "Err"
                             /\ t.pushed[1].error \in ChatErrors

\* the streaming call failed with a transport error, the one-shot call was
\* made and succeeded, and the turn ended with Done
C20_Witness ==
    \E n \in Turns :
        /\ Returned(n) /\ FellBack(n)
        /\ tasks[n].rejected = Some("transport")
        /\ tasks[n].pushed[Len(tasks[n].pushed)].type = "Done"

\* how often the block of turn n has called the provider method `method`
CallCount(n, method) ==
    Len(SelectSeq(tasks[n].calls, LAMBDA c : c = method))

\* C21: a turn calls chat_stream_struct at most once and chat at most once; a
\* non-streaming turn never calls chat_stream_struct; a streaming turn calls
\* chat only after its streaming call returned an error, never once the
\* stream was acquired.
C21_NoCallRetried ==
    \A n \in Turns :
        /\ CallCount(n, "chat_stream_struct") <= 1
        /\ CallCount(n, "chat") <= 1
        /\ ~tasks[n].stream => CallCount(n, "chat_stream_struct") = 0
        /\ (tasks[n].stream /\ CallCount(n, "chat") = 1) =>
              /\ IsSome(tasks[n].rejected) /\ ~tasks[n].acquired
              /\ tasks[n].calls[1] = "chat_stream_struct"
              /\ tasks[n].calls[2] = "chat"
        /\ tasks[n].acquired => CallCount(n, "chat") = 0

\* a stream was acquired, delivered a chunk and then failed: the turn ended
\* with Err and its only call of a chat method is the streaming call
C21_Witness ==
    \E n \in Turns :
        /\ Returned(n) /\ tasks[n].acquired /\ tasks[n].nchunks >= 1
        /\ tasks[n].pushed[Len(tasks[n].pushed)].type = "Err"
        /\ tasks[n].calls = <<"chat_stream_struct">>

\* the block of turn n has ended in the Err arm of its stream
StreamFailed(n) ==
    /\ tasks[n].acquired /\ tasks[n].pc = "returned"
    /\ "memory_contents" \notin SeqToSet(tasks[n].calls)

\* C22: when an acquired stream yields an error, the block pushes what is
\* left in its buffer, if anything, as one Delta, then Err, and stops: the
\* Deltas pushed before the Err join to all the content the stream delivered,
\* Err is the last message, no Done is pushed, no further chunk is taken and
\* memory_contents() is not called.
C22_MidStreamError ==
    /\ [][\A n \in Turns :
            (tasks[n].pc = "next" /\ tasks'[n].pc = "returned") =>
                LET t == tasks[n]
                    out == tasks'[n].out
                IN  /\ out[Len(out)].type = "Err"
                    /\ Len(out) = (IF t.buf = "" THEN 1 ELSE 2)
                    /\ t.buf # "" => out[1] = [type |-> "Delta", entity |-> t.entity,
                                               turn |-> n, text |-> t.buf]
                    /\ JoinedDeltas(t.pushed \o out) = JoinedText(t.arrivals)]_vars
    /\ [][\A n \in Turns :
            StreamFailed(n) =>
                /\ tasks'[n].pc = "returned"
                /\ tasks'[n].nchunks = tasks[n].nchunks
                /\ tasks'[n].calls = tasks[n].calls
                /\ tasks'[n].pushed \o tasks'[n].out = tasks[n].pushed \o tasks[n].out]_vars
    /\ [](\A n \in Turns :
            (StreamFailed(n) /\ Returned(n)) =>
                LET pushed == tasks[n].pushed
                IN  /\ pushed[Len(pushed)].type = "Err"
                    /\ Len(OfType(pushed, "Err")) = 1
                    /\ OfType(pushed, "Done") = <<>>
                    /\ JoinedDeltas(pushed) = JoinedText(tasks[n].arrivals))

\* a stream delivered a long text, flushed at once, and a short one, kept in
\* the buffer, and then failed: Begin, Delta, Delta with the buffer, Err
C22_Witness ==
    \E n \in Turns :
        /\ StreamFailed(n) /\ Returned(n)
        /\ Len(tasks[n].pushed) = 4
        /\ tasks[n].pushed[2].type = "Delta" /\ tasks[n].pushed[2].text = LongText
        /\ tasks[n].pushed[3].type = "Delta" /\ tasks[n].pushed[3].text = "ab"
        /\ tasks[n].pushed[4].type = "Err"

\* what the stream of turn n delivers in the step
ArrivedNow(n) ==
    SubSeq(tasks'[n].arrivals, Len(tasks[n].arrivals) + 1, Len(tasks'[n].arrivals))

\* C23: while a chunk is processed, one Tool message is pushed for each of
\* its choices with non-empty tool calls, in their order, and the Deltas
\* pushed before each of them hold all the text that arrived in the chunks
\* before (the Deltas of a turn join to a prefix of that text, so they hold
\* it when they are as long).
C23_ToolCallsAfterEarlierText ==
    [][\A n \in Turns :
          tasks'[n].nchunks = tasks[n].nchunks + 1 =>
              LET out == tasks'[n].out
                  calls == SelectSeq(ArrivedNow(n), LAMBDA a : "calls" \in DOMAIN a)
              IN  /\ Map(OfType(out, "Tool"), LAMBDA m : m.calls)
                       = Map(calls, LAMBDA a : a.calls)
                  /\ \A i \in 1..Len(out) :
                        out[i].type = "Tool" =>
                            Len(JoinedDeltas(tasks[n].pushed \o SubSeq(out, 1, i - 1)))
                                >= Len(JoinedText(tasks[n].arrivals))]_vars

\* C29: a one-shot or fallback call that succeeds with an empty text, and a
\* stream that ends cleanly without any non-empty content, are a success:
\* the turn pushes Begin and then Done with final_text absent, no Delta and
\* no Err (and, between the two, only the tool calls the stream delivered).
C29_EmptyOutputIsSuccess ==
    \A n \in Turns :
        LET t == tasks[n]
            oneShotEmpty == ~t.acquired /\ t.text = ""
                            /\ "memory_contents" \in SeqToSet(t.calls)
            streamEmpty == CleanEnd(n) /\ JoinedText(t.arrivals) = ""
        IN  (Returned(n) /\ (oneShotEmpty \/ streamEmpty)) =>
                /\ t.pushed[1] = [type |-> "Begin", entity |-> t.entity, turn |-> n]
                /\ t.pushed[Len(t.pushed)].type = "Done"
                /\ t.pushed[Len(t.pushed)].final_text = None
                /\ OfType(t.pushed, "Delta") = <<>>
                /\ OfType(t.pushed, "Err") = <<>>
                /\ oneShotEmpty => Len(t.pushed) = 2
                /\ streamEmpty =>
                      Len(t.pushed) = 2 + Len(SelectSeq(t.arrivals,
                                                   LAMBDA a : "calls" \in DOMAIN a))

\* a stream delivered two chunks without content and without tool calls and
\* ended, and the handle's Completed was written without a final text
C29_Witness ==
    \E n \in Turns :
        /\ CleanEnd(n) /\ tasks[n].nchunks = 2 /\ tasks[n].arrivals = <<>>
        /\ Len(tasks[n].pushed) = 2
        /\ \E i \in 1..Len(events) :
              /\ events[i].kind = "ChatCompletedEvt"
              /\ events[i].final_text = None

\* the messages of turn n that the channel holds, oldest first
Queued(n) == SelectSeq(inbox, LAMBDA m : m.turn = n)

\* C24: the channel is first in, first out for each task while several tasks
\* push: the messages of a task that are still queued are the last ones it
\* pushed, in push order, and messages leave the channel only from its front
\* (the oldest first), whatever number of runs of Drain pops them; so Drain
\* pops the messages of one task in the order the task pushed them.
C24_PerTurnFifo ==
    /\ [](\A n \in Turns :
            LET pushed == tasks[n].pushed
                queued == Queued(n)
            IN  /\ Len(queued) <= Len(pushed)
                /\ queued = SubSeq(pushed, Len(pushed) - Len(queued) + 1, Len(pushed)))
    /\ [][Len(inbox') < Len(inbox) =>
            /\ DrainRan
            /\ inbox' = SubSeq(inbox, Len(inbox) - Len(inbox') + 1, Len(inbox))]_vars

\* two tasks are pushing: the channel holds a message of one task between two
\* messages of the other, whose first message has already been popped
C24_Witness ==
    \E a, b \in Turns :
        /\ a # b
        /\ Len(inbox) = 3
        /\ inbox[1].turn = a /\ inbox[2].turn = b /\ inbox[3].turn = a
        /\ Len(tasks[a].pushed) > Len(Queued(a))
        /\ Len(tasks[b].pushed) = 1

\* the list of an earlier attach to e that a later attach replaced before
\* Intake saw it, if there is one
Overwritten(e) ==
    IF IsSome(request[e]) THEN Unwrap(request[e]).overwrote ELSE None

\* C27: a handle holds one request: when the host attached twice before
\* Intake ran, that run of Intake spawns exactly one task and writes one
\* Started for the handle, the task carries the list of the later attach,
\* and no task ever carries the earlier list, so it is never sent to the
\* provider and nothing is written for it.
C27_LaterAttachWins ==
    /\ [][IntakeRan =>
            \A e \in Entities :
                IsSome(Overwritten(e)) =>
                    LET spawned == SelectSeq(NewTasks, LAMBDA t : t.entity = e)
                    IN  /\ Len(spawned) = 1
                        /\ spawned[1].messages = <<UserMessage(Unwrap(request[e]).given)>>
                        /\ spawned[1].messages # Unwrap(Overwritten(e))
                        /\ Len(SelectSeq(NewEvents, LAMBDA ev : ev.entity = e)) = 1]_vars
    /\ [](\A e \in Entities :
            IsSome(Overwritten(e)) =>
                /\ Unwrap(request[e]).messages # Unwrap(Overwritten(e))
                /\ \A n \in HandleTurns(e) :
                      tasks[n].messages # Unwrap(Overwritten(e))
                /\ Len(SelectSeq(events, LAMBDA ev : ev = ChatStarted(e)))
                     = Cardinality(HandleTurns(e)))

\* the host sent "hi" and then "hello world" to a handle, and Intake has
\* dispatched one turn, with "hello world", and written one Started
C27_Witness ==
    \E e \in Entities :
        /\ e \in pendingRemove
        /\ Overwritten(e) = Some(<<UserMessage("hi")>>)
        /\ Len(tasks) = 1 /\ tasks[1].entity = e
        /\ tasks[1].messages = <<UserMessage("hello world")>>
        /\ events = <<ChatStarted(e)>>

\* C28: a request attached by send_user_text(target, text) has exactly one
\* message, of role user and with the text as its content, and the call
\* touches the request of no other entity.
C28_SendUserText ==
    /\ [](\A e \in Entities :
            IsSome(request[e]) =>
                LET req == Unwrap(request[e])
                IN  /\ Len(req.messages) = 1
                    /\ req.messages[1].role = "User"
                    /\ req.messages[1].content = req.given)
    /\ [][\A e \in Entities :
            (request'[e] # request[e] /\ IsSome(request'[e])) =>
                \A o \in Entities \ {e} : request'[o] = request[o]]_vars

\* send_user_text(e, "hello world") was called on an entity without a
\* request, as in the crate's test, and the request has not been dispatched
C28_Witness ==
    \E e \in Entities :
        /\ IsSome(request[e]) /\ e \notin pendingRemove /\ tasks = <<>>
        /\ Unwrap(request[e]).given = "hello world"
        /\ Unwrap(request[e]).overwrote = None
        /\ Unwrap(request[e]).messages = <<[role |-> "User", content |-> "hello world"]>>

\* C25 as stated: despawning a session entity changes no task and no queued
\* message, and once the entity is gone a run of Drain writes no event that
\* names it.
C25_LateMessagesDiscarded ==
    /\ [][\A e \in Entities :
            (IsSome(session[e]) /\ session'[e] = None) =>
                tasks' = tasks /\ inbox' = inbox]_vars
    /\ [][DrainRan =>
            \A e \in Entities :
                session[e] = None =>
                    \A i \in 1..Len(NewEvents) : NewEvents[i].entity # e]_vars

\* the provider the registry reg gives for the session key `key`
Resolved(reg, key) ==
    IF IsSome(key) /\ Unwrap(key) \in DOMAIN reg.per_key
      THEN reg.per_key[Unwrap(key)]
      ELSE reg.default

\* C26: the task Intake spawns for an entity holds the provider that the
\* registry of that moment gives for the session's key of that moment, the
\* messages of the request and the session's streaming flag; no later step,
\* whether it replaces the registry, changes the session, despawns the entity
\* or attaches a request, changes the three in a task; and every call a task
\* makes goes to that provider.
C26_DispatchTimeSnapshot ==
    /\ [][IntakeRan =>
            \A i \in 1..Len(NewTasks) :
                LET t == NewTasks[i]
                    s == Unwrap(session[t.entity])
                IN  /\ t.provider = Resolved(providers, s.key)
                    /\ t.messages = Unwrap(request[t.entity]).messages
                    /\ t.stream = s.stream]_vars
    /\ [][\A n \in Turns :
            /\ tasks'[n].provider = tasks[n].provider
            /\ tasks'[n].messages = tasks[n].messages
            /\ tasks'[n].stream = tasks[n].stream]_vars
    /\ [](\A n \in Turns : tasks[n].callee = {tasks[n].provider})

\* a streaming turn on the keyed provider fell back to the one-shot call and
\* is waiting for the history; meanwhile the host replaced the registry,
\* switched the session to the default provider without streaming and
\* attached a request, which Intake dispatched to the new provider
C26_Witness ==
    /\ Len(tasks) = 2 /\ tasks[1].entity = tasks[2].entity
    /\ providers = Rebuilt
    /\ tasks[1].provider = "keyed" /\ tasks[1].stream
    /\ tasks[1].calls = <<"chat_stream_struct", "chat", "memory_contents">>
    /\ tasks[1].callee = {"keyed"}
    /\ tasks[1].pc = "memory_contents"
    /\ tasks[2].provider = "rebuilt" /\ ~tasks[2].stream

\* the stream of turn n was acquired and neither flush condition has been
\* met so far: every text came within 16 ms of the last flush and all of
\* them together are shorter than MIN_CHARS
NeverFlushed(n) ==
    /\ tasks[n].acquired
    /\ \A i \in 1..Len(tasks[n].arrivals) :
          "text" \in DOMAIN tasks[n].arrivals[i] => ~tasks[n].arrivals[i].late
    /\ Len(JoinedText(tasks[n].arrivals)) < MIN_CHARS

\* C30: a streaming turn for which neither flush condition is ever met
\* pushes no Delta while the stream runs and, when the stream has ended
\* with some text, exactly one Delta, which holds the whole text and comes
\* right before the Done; and a run of Drain that pops this Delta together
\* with the Done writes for the handle exactly one TextAppended, with the
\* whole text, and after it the Completed.
C30_OneDeltaAtStreamEnd ==
    /\ [](\A n \in Turns :
            NeverFlushed(n) =>
                LET t == tasks[n]
                    whole == JoinedText(t.arrivals)
                    sent == t.pushed \o t.out
                IN  /\ t.pc = "next" => OfType(sent, "Delta") = <<>>
                    /\ (CleanEnd(n) /\ whole # "") =>
                          /\ OfType(sent, "Delta")
                               = <<[type |-> "Delta", entity |-> t.entity,
                                    turn |-> n, text |-> whole]>>
                          /\ sent[Len(sent) - 1].type = "Delta"
                          /\ sent[Len(sent)].final_text = Some(whole))
    /\ [][DrainRan =>
            \A n \in Turns :
                (/\ NeverFlushed(n) /\ CleanEnd(n)
                 /\ \E i, j \in 1..Len(PoppedNow) :
                       /\ PoppedNow[i].type = "Delta" /\ PoppedNow[i].turn = n
                       /\ PoppedNow[j].type = "Done" /\ PoppedNow[j].turn = n)
                    => LET e == tasks[n].entity
                           whole == JoinedText(tasks[n].arrivals)
                           written == SelectSeq(NewEvents, LAMBDA ev : ev.entity = e)
                       IN  /\ Len(written) = 2
                           /\ written[1].kind = "ChatDeltaEvt"
                           /\ written[1].text = whole
                           /\ written[2].kind = "ChatCompletedEvt"
                           /\ written[2].final_text = Some(whole)]_vars

\* the chunks "Hel", "lo wo" and "rld!" came without a flush, the task
\* pushed Begin, Delta("Hello world!") and Done, and the host was told
\* Started, TextAppended("Hello world!") and Completed
C30_Witness ==
    \E n \in Turns :
        /\ NeverFlushed(n) /\ CleanEnd(n)
        /\ tasks[n].arrivals = <<[text |-> "Hel", late |-> FALSE],
                                 [text |-> "lo wo", late |-> FALSE],
                                 [text |-> "rld!", late |-> FALSE]>>
        /\ Len(tasks[n].pushed) = 3
        /\ tasks[n].pushed[2].text = "Hello world!"
        /\ Len(events) = 3
        /\ events[2].kind = "ChatDeltaEvt" /\ events[2].text = "Hello world!"
        /\ events[3].kind = "ChatCompletedEvt"
        /\ events[3].final_text = Some("Hello world!")

OneShotSucceeded(n) ==
    ~tasks[n].acquired /\ "memory_contents" \in SeqToSet(tasks[n].calls)

\* C32: after a successful one-shot call the block pushes Begin and, for a
\* non-empty text, one Delta with the whole text before it queries the
\* history, so that while memory_contents() is pending these are pushed or
\* being pushed and Done is not; Done follows when the query has returned.
\* After a failed one-shot call the block pushes Err alone.
C32_BeginBeforeHistoryQuery ==
    \A n \in Turns :
        LET t == tasks[n]
            sent == t.pushed \o t.out
            head == <<[type |-> "Begin", entity |-> t.entity, turn |-> n]>>
                    \o (IF t.text # ""
                          THEN <<[type |-> "Delta", entity |-> t.entity,
                                  turn |-> n, text |-> t.text]>>
                          ELSE <<>>)
        IN  /\ (OneShotSucceeded(n) /\ t.pc = "memory_contents") => sent = head
            /\ (OneShotSucceeded(n) /\ t.pc = "returned") =>
                  /\ Len(sent) = Len(head) + 1
                  /\ SubSeq(sent, 1, Len(head)) = head
                  /\ sent[Len(sent)].type = "Done"
            /\ (~t.acquired /\ t.pc = "returned" /\ ~OneShotSucceeded(n)) =>
                  Len(sent) = 1 /\ sent[1].type = "Err"

\* C33: a turn pushes Begin at most once; a turn that pushes a Delta, tool
\* calls or a Done has pushed Begin first, before every other message; and a
\* turn whose one-shot call failed, with or without a rejected streaming
\* call before it, pushes Err as its only message.
C33_BeginFirst ==
    \A n \in Turns :
        LET t == tasks[n]
            sent == t.pushed \o t.out
        IN  /\ Len(OfType(sent, "Begin")) <= 1
            /\ (\E i \in 1..Len(sent) : sent[i].type \in {"Delta", "Tool", "Done"})
                  => sent[1].type = "Begin"
            /\ \A i \in 2..Len(sent) : sent[i].type # "Begin"
            /\ (~t.acquired /\ t.pc = "returned" /\ ~OneShotSucceeded(n))
                  => Len(sent) = 1 /\ sent[1].type = "Err"

\* a streaming turn was rejected and its one-shot call failed too: the Err
\* is all the turn pushed, and the host was told Started and Failed
C33_Witness ==
    \E n \in Turns :
        /\ Returned(n) /\ IsSome(tasks[n].rejected) /\ ~OneShotSucceeded(n)
        /\ Len(tasks[n].pushed) = 1 /\ tasks[n].pushed[1].type = "Err"
        /\ Len(events) = 2 /\ events[2].kind = "ChatErrorEvt"

\* C34: when a stream has ended, the block has flushed its buffer before it
\* queries the history, queries it once, and then pushes Done with the
\* reconciliation of the queried history and the text received as its
\* snapshot; no turn queries the history more than once, and a turn that
\* queried it never ends with Err.
C34_HistoryQueriedOnSuccess ==
    \A n \in Turns :
        LET t == tasks[n]
            sent == t.pushed \o t.out
            received == JoinedText(t.arrivals)
        IN  /\ CallCount(n, "memory_contents") <= 1
            /\ CallCount(n, "memory_contents") = 1 => OfType(sent, "Err") = <<>>
            /\ (t.acquired /\ t.pc = "memory_contents") =>
                  /\ t.buf = ""
                  /\ JoinedDeltas(sent) = received
                  /\ OfType(sent, "Done") = <<>>
            /\ CleanEnd(n) =>
                  /\ CallCount(n, "memory_contents") = 1
                  /\ IsSome(t.snapshot)
                  /\ sent[Len(sent)].memory
                       = merge_memory_with_final(Unwrap(t.snapshot), FinalText(received))
                  /\ Len(OfType(sent, "Done")) = 1

\* a stream delivered "ab" and ended, the history query returned the user's
\* message alone, and Done carries that message and the assistant's "ab"
C34_Witness ==
    \E n \in Turns :
        /\ CleanEnd(n)
        /\ JoinedText(tasks[n].arrivals) = "ab"
        /\ tasks[n].snapshot = Some(Some(<<UserMessage("hi")>>))
        /\ tasks[n].pushed[Len(tasks[n].pushed)].memory
             = Some(<<UserMessage("hi"), AssistantMessage("ab")>>)
        /\ tasks[n].pushed[Len(tasks[n].pushed) - 1].type = "Delta"

LastTurn(e) == CHOOSE n \in HandleTurns(e) : \A m \in HandleTurns(e) : m <= n

\* C37: the removal applied at the end of a tick deletes only the request
\* Intake dispatched in that tick: a request the host attached to a visited
\* handle after Intake's scan, with messages other than those dispatched, is
\* still attached when the tick has ended.
C37_RemovesOnlyDispatched ==
    [][(ran # {} /\ ran' = {}) =>
        \A e \in pendingRemove :
            (/\ IsSome(request[e])
             /\ Unwrap(request[e]).messages # tasks[LastTurn(e)].messages)
                => request'[e] = request[e]]_vars

\* the number of ChatStarted of entity e among evs
StartedCount(evs, e) == Len(SelectSeq(evs, LAMBDA ev : ev = ChatStarted(e)))

\* C38: when a run of Drain pops a Delta, ToolCalls, Done or Err of a turn,
\* the Started of that turn (the k-th Started of its handle for the handle's
\* k-th turn) has been written before, whether Intake or Drain ran first in
\* the tick; and every TextAppended comes after the Started of each turn
\* whose text it holds.
C38_StartedFirst ==
    /\ [][DrainRan =>
            \A k \in 1..Len(PoppedNow) :
                LET m == PoppedNow[k]
                IN  m.type # "Begin" =>
                        /\ m.turn \in Turns
                        /\ tasks[m.turn].entity = m.entity
                        /\ StartedCount(events, m.entity)
                             >= Cardinality(TurnsBefore(m.turn))]_vars
    /\ [](\A i \in 1..Len(events) :
            events[i].kind = "ChatDeltaEvt" =>
                \A b \in SeqToSet(events[i].turns) :
                    /\ b \in Turns
                    /\ StartedCount(SubSeq(events, 1, i - 1), events[i].entity)
                         >= Cardinality(TurnsBefore(b)))

\* a turn was dispatched, ran to its end and was drained within one tick:
\* the removal of its request is still queued, and the host has been told
\* Started and then Completed
C38_Witness ==
    /\ Len(tasks) = 1
    /\ ran = {"spawn_chat_requests", "drain_stream_inbox"}
    /\ pendingRemove = {tasks[1].entity}
    /\ Returned(1)
    /\ inbox = <<>>
    /\ Len(events) = 2
    /\ events[1] = ChatStarted(tasks[1].entity)
    /\ events[2].kind = "ChatCompletedEvt"

\* C39: of the notifications one run of Drain writes, those that carry handle
\* e are built from the popped messages tagged e and from no others: there
\* are as many as e's ToolCalls, Done and Err messages plus one if e has a
\* Delta, each of the former repeats a message tagged e, and the TextAppended
\* holds the joined text of the Deltas tagged e, all of turns of e.
C39_HandlesIsolated ==
    [][DrainRan =>
        \A e \in Entities :
            LET mine == SelectSeq(PoppedNow, LAMBDA m : m.entity = e)
                single == SelectSeq(mine, LAMBDA m : m.type \in {"Tool", "Done", "Err"})
                evs == SelectSeq(NewEvents, LAMBDA ev : ev.entity = e)
            IN  /\ Len(evs) = Len(single)
                                + (IF OfType(mine, "Delta") = <<>> THEN 0 ELSE 1)
                /\ \A i \in 1..Len(evs) :
                      IF evs[i].kind = "ChatDeltaEvt"
                        THEN /\ evs[i].text = JoinedDeltas(mine)
                             /\ \A b \in SeqToSet(evs[i].turns) :
                                   b \in Turns /\ tasks[b].entity = e
                        ELSE evs[i] \in {Notification(m) : m \in SeqToSet(single)}]_vars

\* the turns of the two handles ran side by side, and the host has the text
\* "ab" of the stream under handle 1 and the answer "there" of the one-shot
\* call under handle 2, in two TextAppended written one after the other
C39_Witness ==
    /\ Len(tasks) = 2
    /\ tasks[1].entity # tasks[2].entity
    /\ "drain_stream_inbox" \in ran
    /\ \E i \in 1..(Len(events) - 1) :
          /\ events[i].kind = "ChatDeltaEvt" /\ events[i + 1].kind = "ChatDeltaEvt"
          /\ events[i].entity # events[i + 1].entity
          /\ \A j \in {i, i + 1} :
                events[j].text = IF events[j].entity = 1 THEN "ab" ELSE "there"
          /\ i + 1 = Len(events)

\* C40: a run of Intake leaves every ChatSession, every ChatRequest, the
\* registry, the channel and the tasks and notifications that exist as they
\* are, and gives a handle that carries no request no Started and no task;
\* the removal applied at the end of the tick takes the ChatRequest from the
\* visited entities and touches no other component; so every handle keeps its
\* key and its streaming flag through all its turns.
C40_IntakeFrame ==
    /\ [][IntakeRan =>
            /\ session' = session /\ request' = request /\ providers' = providers
            /\ inbox' = inbox
            /\ SubSeq(tasks', 1, Len(tasks)) = tasks
            /\ SubSeq(events', 1, Len(events)) = events
            /\ \A e \in Entities :
                  (IsSome(session[e]) /\ request[e] = None) =>
                      /\ \A i \in 1..Len(NewEvents) : NewEvents[i].entity # e
                      /\ \A i \in 1..Len(NewTasks) : NewTasks[i].entity # e]_vars
    /\ [][(ran # {} /\ ran' = {}) =>
            /\ session' = session
            /\ \A e \in Entities \ pendingRemove : request'[e] = request[e]]_vars
    /\ [](\A e \in Entities :
            session[e] = Some(ChatSession(SessionKey(e), SessionStream(e))))

\* one handle's turn was dispatched and has run to its end while the other
\* handle carried no request: both handles are as the host made them, and
\* the other handle has no task and no Started
C40_Witness ==
    /\ Len(tasks) = 1 /\ Returned(1)
    /\ ran = {} /\ pendingRemove = {}
    /\ \A e \in Entities :
          /\ request[e] = None
          /\ session[e] = Some(ChatSession(SessionKey(e), SessionStream(e)))
    /\ \E e \in Entities \ {tasks[1].entity} :
          \A i \in 1..Len(events) : events[i].entity # e
    /\ SelectSeq(events, LAMBDA ev : ev.kind = "ChatStarted")
         = <<ChatStarted(tasks[1].entity)>>
    /\ events[Len(events)].kind = "ChatCompletedEvt"

=============================================================================
